---- MODULE Spec2Model ----
(***************************************************************************)
(* A model of the Spotify client of src/src/client/mod.rs: the page        *)
(* walkers, the result reconcilers, the response patch, the concurrent     *)
(* search and the playlist mutations.  Each component has its own          *)
(* specification (SpecWalk, SpecRecent, ...) over its own variables; the   *)
(* variables of the other components stay at their initial value.          *)
(***************************************************************************)
EXTENDS Integers, Sequences, FiniteSets, TLC

VARIABLES
    chain,      \* upstream: the items of page 1, 2, ... of one paginated query
    failAt,     \* upstream: the page whose fetch fails (0: every fetch succeeds)
    urlStyle,   \* upstream: what a `next` URL encodes, an offset or a cursor
    walk,       \* per walker: its locals, the requests it issued, its result
    recent,     \* current_user_recently_played_tracks: its locals and result
    discog,     \* artist_albums / process_artist_albums: locals and result
    reorder,    \* reorder_playlist_items: arguments, request sent, result
    patch,      \* process_spotify_api_response: a body and its rewrites
    search,     \* search: the four branches of try_join! and the result
    playlist,   \* upstream: the items of one playlist
    adder,      \* per caller of add_track_to_playlist: locals and result
    held,       \* the Option<Session> inside the client's session mutex
    lock,       \* the task that holds the session mutex, or "free"
    invalid,    \* the sessions for which Session::is_invalid() is true
    created,    \* how many sessions were ever created
    task,       \* per task using the session: its position, locals and result
    fetch,      \* one operation's catalog fetches: the request in flight, a log
    radio,      \* radio_tracks: its position, the requests issued, its result
    artistCtx,  \* artist_context: its position, the requests issued, its result
    playlistCtx, \* playlist_context: its position, requests, locals and result
    collect     \* saved tracks / top tracks / album_context: locals and result

walkVars == <<chain, failAt, urlStyle, walk>>
addVars == <<playlist, adder>>
sessionVars == <<held, lock, invalid, created, task>>
contextVars == <<artistCtx, playlistCtx, collect>>

vars == <<walkVars, recent, discog, reorder, patch, search, addVars,
          sessionVars, fetch, radio, contextVars>>

\* What the actions of one component leave alone.
otherThanWalk ==
    <<recent, discog, reorder, patch, search, addVars,
      sessionVars, fetch, radio, contextVars>>
otherThanRecent ==
    <<walkVars, discog, reorder, patch, search, addVars,
      sessionVars, fetch, radio, contextVars>>
otherThanDiscog ==
    <<walkVars, recent, reorder, patch, search, addVars,
      sessionVars, fetch, radio, contextVars>>
otherThanReorder ==
    <<walkVars, recent, discog, patch, search, addVars,
      sessionVars, fetch, radio, contextVars>>
otherThanPatch ==
    <<walkVars, recent, discog, reorder, search, addVars,
      sessionVars, fetch, radio, contextVars>>
otherThanSearch ==
    <<walkVars, recent, discog, reorder, patch, addVars,
      sessionVars, fetch, radio, contextVars>>
otherThanAdd ==
    <<walkVars, recent, discog, reorder, patch, search,
      sessionVars, fetch, radio, contextVars>>
otherThanSession ==
    <<walkVars, recent, discog, reorder, patch, search, addVars,
      fetch, radio, contextVars>>
otherThanFetch ==
    <<walkVars, recent, discog, reorder, patch, search, addVars,
      radio, contextVars>>
otherThanRadio ==
    <<walkVars, recent, discog, reorder, patch, search, addVars,
      sessionVars, fetch, contextVars>>
otherThanArtistCtx ==
    <<walkVars, recent, discog, reorder, patch, search, addVars,
      sessionVars, fetch, radio, playlistCtx, collect>>
otherThanPlaylistCtx ==
    <<walkVars, recent, discog, reorder, patch, search, addVars,
      sessionVars, fetch, radio, artistCtx, collect>>
otherThanCollect ==
    <<walkVars, recent, discog, reorder, patch, search, addVars,
      sessionVars, fetch, radio, artistCtx, playlistCtx>>

(***************************************************************************)
(* Option and Result values.                                               *)
(***************************************************************************)
None == [tag |-> "None"]
Some(x) == [tag |-> "Some", value |-> x]
Ok(v) == [tag |-> "Ok", value |-> v]
Err(e) == [tag |-> "Err", error |-> e]
Pending == [tag |-> "Pending"]

(***************************************************************************)
(* The parts of the other components that are set at construction.         *)
(***************************************************************************)
RecentUnused ==
    recent = [pc |-> "idle", play_histories |-> <<>>, pos |-> 1,
              tracks |-> <<>>, result |-> Pending]

DiscogUnused ==
    discog = [pc |-> "idle", fetched_albums |-> <<>>, fetched_singles |-> <<>>,
              arg |-> <<>>, albums |-> <<>>, seen_names |-> {}, acc |-> <<>>,
              result |-> Pending]

ReorderUnused ==
    reorder = [pc |-> "idle", args |-> None, sent |-> None, result |-> Pending]

PatchUnused == patch = [text |-> <<>>, passes |-> <<>>]

SearchTypes == {"Track", "Artist", "Album", "Playlist"}

SearchUnused ==
    search = [pc |-> "idle", branch |-> [t \in SearchTypes |-> Pending],
              result |-> Pending]

Callers == {"c1", "c2"}

IdleAdder ==
    [pc |-> "idle", op |-> "", track_id |-> "", before |-> <<>>,
     requests |-> <<>>, result |-> Pending]

AddUnused ==
    /\ playlist = <<>>
    /\ adder = [c \in Callers |-> IdleAdder]

\* A session as the session mutex holds it: the credentials it was
\* authenticated with and the connection it owns.  The k-th session ever
\* created is Session(k); Client::new is given the first.
Session(k) == [credentials |-> k, connection |-> k]

Tasks == {"t1", "t2"}

IdleTask ==
    [pc |-> "idle", op |-> "", got |-> None, found_invalid |-> FALSE,
     session |-> None, auths |-> 0, writes |-> 0, calls |-> 0,
     result |-> Pending]

SessionUnused ==
    /\ held = Some(Session(1))
    /\ lock = "free"
    /\ invalid = {}
    /\ created = 1
    /\ task = [t \in Tasks |-> IdleTask]

FetchUnused ==
    fetch = [pc |-> "idle", op |-> "", stage |-> "first", left |-> 0,
             later |-> <<>>, access_token |-> None,
             upstream |-> {}, requests |-> <<>>,
             responses |-> <<>>, result |-> Pending]

RadioUnused ==
    radio = [pc |-> "idle", requests |-> <<>>, responses |-> <<>>,
             result |-> Pending]

IdleContext ==
    [pc |-> "idle", requests |-> <<>>, fetched |-> <<>>, result |-> Pending]

CollectUnused ==
    collect = [pc |-> "idle", op |-> "", requests |-> <<>>, fetched |-> <<>>,
               result |-> Pending]

ContextUnused ==
    /\ artistCtx = IdleContext
    /\ playlistCtx = IdleContext
    /\ CollectUnused

(***************************************************************************)
(* Bounds and input sets of the page walks.                                *)
(***************************************************************************)
MaxPages == 3
MaxItems == 3
Items == {"A", "B", "C"}
UrlStyles == {"offset", "cursor"}
Queries == {"market=from_token", ""}

FlatSeqs == UNION {[1..n -> Items] : n \in 0..MaxItems}

Cuts(n, len) ==
    {c \in [0..n -> 0..len] :
        c[0] = 0 /\ c[n] = len /\ \A k \in 1..n : c[k - 1] <= c[k]}

\* Every way to cut a sequence of at most MaxItems items into 1..MaxPages pages.
Chains ==
    UNION {UNION {{[k \in 1..n |-> SubSeq(s, c[k - 1] + 1, c[k])] :
                      c \in Cuts(n, Len(s))} : s \in FlatSeqs} : n \in 1..MaxPages}

(***************************************************************************)
(* The upstream pages.  Page k carries a `next` URL iff a page k+1 exists. *)
(***************************************************************************)
Url(k) == [style |-> urlStyle, page |-> k]

PageOf(k) ==
    [items |-> chain[k],
     next  |-> IF k < Len(chain) THEN Some(Url(k + 1)) ELSE None]

\* What a followed-artists follow-up response decodes to: the page sits under
\* the `artists` key.
CursorPageFullArtists(k) == [artists |-> PageOf(k)]

\* http_get::<T>(url, payload): the decoded page, or the error of this fetch.
HttpGet(url, shape) ==
    IF url.page = failAt
    THEN Err([fetch |-> url])
    ELSE Ok(IF shape = "CursorPageFullArtists"
            THEN CursorPageFullArtists(url.page)
            ELSE PageOf(url.page))

\* From<FullArtist> for Artist.
ArtistFrom(a) == [artist |-> a]

RECURSIVE Flatten(_, _)
\* The items of pages 1..k of a chain, in page order.
Flatten(c, k) == IF k = 0 THEN <<>> ELSE Flatten(c, k - 1) \o c[k]

(***************************************************************************)
(* The three page walks.  A walker is "idle" before its call, "loop" at    *)
(* the head of its `while let Some(url) = maybe_next`, "done" on return;   *)
(* current_user_followed_artists is at "first" while its own fetch of the  *)
(* first page is awaited.  `requests` are the requests made by http_get.   *)
(***************************************************************************)
PAGING == "all_paging_items"
CURSOR == "all_cursor_based_paging_items"
FOLLOWED == "current_user_followed_artists"
Walkers == {PAGING, CURSOR, FOLLOWED}

\* `caller` is the operation that fetched the first page and `first_query`
\* the query parameters of that fetch, when the walk is run by an operation.
IdleWalker ==
    [pc |-> "idle", payload |-> "", items |-> <<>>, maybe_next |-> None,
     requests |-> <<>>, result |-> Pending,
     caller |-> "", first_query |-> {}]

\* One client task calls the three operations one after the other.
NoWalkRunning == \A w \in Walkers : walk[w].pc \notin {"first", "loop"}

\* `let mut items = first_page.items; let mut maybe_next = first_page.next;`
EnterLoop(w, payload, first_page) ==
    walk' = [walk EXCEPT ![w] =
                [@ EXCEPT !.pc = "loop", !.payload = payload,
                          !.items = first_page.items,
                          !.maybe_next = first_page.next]]

\* A failed fetch that hands back what was collected so far.
FetchFailedPartial(w, req, e) ==
    walk' = [walk EXCEPT ![w] =
                [@ EXCEPT !.pc = "done", !.requests = Append(@, req),
                          !.maybe_next = None,
                          !.result = Ok(walk[w].items)]]

\* `http_get(..).await?` failed: the error is returned, the locals are dropped.
FetchFailed(w, req, e) ==
    walk' = [walk EXCEPT ![w] =
                [@ EXCEPT !.pc = "done", !.requests = Append(@, req),
                          !.items = <<>>, !.maybe_next = None,
                          !.result = Err(e)]]

\* A page's items put in front of the collected ones.
AppendPageInFront(w, req, next_page) ==
    walk' = [walk EXCEPT ![w] =
                [@ EXCEPT !.requests = Append(@, req),
                          !.items = next_page.items \o @,
                          !.maybe_next = next_page.next]]

\* A page appended as the last one, whatever its `next`.
AppendPageDropsNext(w, req, next_page) ==
    walk' = [walk EXCEPT ![w] =
                [@ EXCEPT !.requests = Append(@, req),
                          !.items = @ \o next_page.items,
                          !.maybe_next = None]]

\* `items.append(&mut next_page.items); maybe_next = next_page.next;`
AppendPage(w, req, next_page) ==
    walk' = [walk EXCEPT ![w] =
                [@ EXCEPT !.requests = Append(@, req),
                          !.items = @ \o next_page.items,
                          !.maybe_next = next_page.next]]

AllPagingItemsCall ==
    /\ walk[PAGING].pc = "idle"
    /\ NoWalkRunning
    /\ \E payload \in Queries : EnterLoop(PAGING, payload, PageOf(1))
    /\ UNCHANGED <<chain, failAt, urlStyle, otherThanWalk>>

AllPagingItemsFetch ==
    /\ walk[PAGING].pc = "loop"
    /\ walk[PAGING].maybe_next # None
    /\ LET url == walk[PAGING].maybe_next.value
           req == [url |-> url, query |-> walk[PAGING].payload]
           got == HttpGet(url, "Page")
       IN  IF got.tag = "Err"
           THEN FetchFailed(PAGING, req, got.error)
           ELSE AppendPage(PAGING, req, got.value)
    /\ UNCHANGED <<chain, failAt, urlStyle, otherThanWalk>>

AllPagingItemsReturn ==
    /\ walk[PAGING].pc = "loop"
    /\ walk[PAGING].maybe_next = None
    /\ walk' = [walk EXCEPT ![PAGING] =
                   [@ EXCEPT !.pc = "done",
                             !.result = Ok(walk[PAGING].items)]]
    /\ UNCHANGED <<chain, failAt, urlStyle, otherThanWalk>>

\* A cursor walk that forgets the items of the first page.
AllCursorBasedPagingItemsCallNoFirst ==
    /\ walk[CURSOR].pc = "idle"
    /\ NoWalkRunning
    /\ EnterLoop(CURSOR, "", [PageOf(1) EXCEPT !.items = <<>>])
    /\ UNCHANGED <<chain, failAt, urlStyle, otherThanWalk>>

AllCursorBasedPagingItemsCall ==
    /\ walk[CURSOR].pc = "idle"
    /\ NoWalkRunning
    /\ EnterLoop(CURSOR, "", PageOf(1))
    /\ UNCHANGED <<chain, failAt, urlStyle, otherThanWalk>>

AllCursorBasedPagingItemsFetch ==
    /\ walk[CURSOR].pc = "loop"
    /\ walk[CURSOR].maybe_next # None
    /\ LET url == walk[CURSOR].maybe_next.value
           req == [url |-> url, query |-> ""]
           got == HttpGet(url, "CursorBasedPage")
       IN  IF got.tag = "Err"
           THEN FetchFailed(CURSOR, req, got.error)
           ELSE AppendPage(CURSOR, req, got.value)
    /\ UNCHANGED <<chain, failAt, urlStyle, otherThanWalk>>

AllCursorBasedPagingItemsReturn ==
    /\ walk[CURSOR].pc = "loop"
    /\ walk[CURSOR].maybe_next = None
    /\ walk' = [walk EXCEPT ![CURSOR] =
                   [@ EXCEPT !.pc = "done",
                             !.result = Ok(walk[CURSOR].items)]]
    /\ UNCHANGED <<chain, failAt, urlStyle, otherThanWalk>>

\* The fetch of the first page by the rspotify client: no URL is asked for.
FirstFetch == [style |-> "rspotify", page |-> 1]

\* `self.spotify.current_user_followed_artists(None, None)` is sent.
FollowedArtistsCall ==
    /\ walk[FOLLOWED].pc = "idle"
    /\ NoWalkRunning
    /\ walk' = [walk EXCEPT ![FOLLOWED].pc = "first"]
    /\ UNCHANGED <<chain, failAt, urlStyle, otherThanWalk>>

\* `.await?` of the first fetch: its error is returned before any http_get,
\* or its page starts the loop.
FollowedArtistsFirstAnswered ==
    /\ walk[FOLLOWED].pc = "first"
    /\ IF failAt = 1
       THEN walk' = [walk EXCEPT ![FOLLOWED] =
                        [@ EXCEPT !.pc = "done",
                                  !.result = Err([fetch |-> FirstFetch])]]
       ELSE EnterLoop(FOLLOWED, "", PageOf(1))
    /\ UNCHANGED <<chain, failAt, urlStyle, otherThanWalk>>

FollowedArtistsFetch ==
    /\ walk[FOLLOWED].pc = "loop"
    /\ walk[FOLLOWED].maybe_next # None
    /\ LET url == walk[FOLLOWED].maybe_next.value
           req == [url |-> url, query |-> ""]
           got == HttpGet(url, "CursorPageFullArtists")
       IN  IF got.tag = "Err"
           THEN FetchFailed(FOLLOWED, req, got.error)
           ELSE AppendPage(FOLLOWED, req, got.value.artists)
    /\ UNCHANGED <<chain, failAt, urlStyle, otherThanWalk>>

FollowedArtistsReturn ==
    /\ walk[FOLLOWED].pc = "loop"
    /\ walk[FOLLOWED].maybe_next = None
    /\ walk' = [walk EXCEPT ![FOLLOWED] =
                   [@ EXCEPT !.pc = "done",
                             !.result =
                                 Ok([k \in 1..Len(walk[FOLLOWED].items) |->
                                        ArtistFrom(walk[FOLLOWED].items[k])])]]
    /\ UNCHANGED <<chain, failAt, urlStyle, otherThanWalk>>

\* The components that a specification does not run stay as constructed.
WalkUnused ==
    /\ chain = << <<>> >>
    /\ failAt = 0
    /\ urlStyle = "offset"
    /\ walk = [w \in Walkers |-> IdleWalker]

InitWalk ==
    /\ chain \in Chains
    /\ failAt \in 0..Len(chain)
    /\ urlStyle \in UrlStyles
    /\ walk = [w \in Walkers |-> IdleWalker]
    /\ RecentUnused /\ DiscogUnused /\ ReorderUnused /\ PatchUnused
    /\ SearchUnused /\ AddUnused
    /\ SessionUnused /\ FetchUnused /\ RadioUnused /\ ContextUnused

NextWalk ==
    \/ AllPagingItemsCall
    \/ AllPagingItemsFetch
    \/ AllPagingItemsReturn
    \/ AllCursorBasedPagingItemsCall
    \/ AllCursorBasedPagingItemsFetch
    \/ AllCursorBasedPagingItemsReturn
    \/ FollowedArtistsCall
    \/ FollowedArtistsFirstAnswered
    \/ FollowedArtistsFetch
    \/ FollowedArtistsReturn

SpecWalk == InitWalk /\ [][NextWalk]_vars

(***************************************************************************)
(* Claims about the page walks.                                            *)
(***************************************************************************)
UrlsOf(requests) == [k \in 1..Len(requests) |-> requests[k].url]

\* The `next` URLs of pages 1..k-1 of the chain: what a walk that read k pages
\* has requested.
NextUrls(k) == [j \in 1..(k - 1) |-> PageOf(j).next.value]

\* C1: when every fetch succeeds, all_paging_items holds, after each page, the
\* concatenation of the pages read so far in page and item order, goes on to
\* fetch iff the last page read has a `next` URL, and returns the
\* concatenation of all pages after requesting exactly the `next` URLs.
C1_AllPagingItemsConcatenates ==
    failAt = 0 =>
        LET w == walk[PAGING]
            read == Len(w.requests) + 1
        IN  /\ w.pc = "loop" =>
                /\ w.items = Flatten(chain, read)
                /\ w.maybe_next = PageOf(read).next
                /\ (ENABLED AllPagingItemsFetch) <=> (PageOf(read).next # None)
                /\ (ENABLED AllPagingItemsReturn) <=> (PageOf(read).next = None)
            /\ w.pc = "done" =>
                /\ w.result = Ok(Flatten(chain, Len(chain)))
                /\ UrlsOf(w.requests) = NextUrls(Len(chain))

C1_Witness ==
    /\ failAt = 0
    /\ chain = << <<"A", "B">>, <<"C">> >>
    /\ walk[PAGING].pc = "done"
    /\ walk[PAGING].result = Ok(<<"A", "B", "C">>)
    /\ Len(walk[PAGING].requests) = 1

\* C2: when the fetch of page k >= 2 fails, each of the three walks returns
\* the error of that fetch, returns no item, and its last request is the
\* failed one.
C2_FailedFetchAbortsWalk ==
    \A w \in Walkers :
        (failAt >= 2 /\ walk[w].pc = "done") =>
            /\ walk[w].result = Err([fetch |-> Url(failAt)])
            /\ UrlsOf(walk[w].requests) = NextUrls(failAt)

C2_Witness ==
    /\ failAt = 2
    /\ Len(chain) = 3
    /\ chain[1] # <<>>
    /\ \A w \in Walkers :
        /\ walk[w].pc = "done"
        /\ walk[w].result.tag = "Err"
        /\ Len(walk[w].requests) = 1

\* The items a finished walk collected: for the followed-artists walk, the
\* artists before their conversion.
WalkedItems(w) ==
    IF w = FOLLOWED
    THEN [k \in 1..Len(walk[w].result.value) |-> walk[w].result.value[k].artist]
    ELSE walk[w].result.value

\* The walk never began: current_user_followed_artists did not get its
\* first page.
NoFirstPage(w) == w = FOLLOWED /\ failAt = 1

\* C3: on the same chain of pages, any two finished walks that began with
\* the first page agree on success or failure, on the items collected, on
\* the `next` URLs requested and on the page they stopped at, whatever the
\* URLs encode.
C3_WalkersAgree ==
    \A v, w \in Walkers :
        (/\ walk[v].pc = "done" /\ walk[w].pc = "done"
         /\ ~ NoFirstPage(v) /\ ~ NoFirstPage(w)) =>
            /\ walk[v].result.tag = walk[w].result.tag
            /\ walk[v].result.tag = "Ok" => WalkedItems(v) = WalkedItems(w)
            /\ walk[v].result.tag = "Err" => walk[v].result = walk[w].result
            /\ UrlsOf(walk[v].requests) = UrlsOf(walk[w].requests)

C3_Witness ==
    /\ failAt = 0
    /\ Len(chain) = 3
    /\ chain[3] # <<>>
    /\ urlStyle = "cursor"
    /\ \A w \in Walkers : walk[w].pc = "done" /\ walk[w].result.tag = "Ok"
    /\ WalkedItems(PAGING) = WalkedItems(FOLLOWED)
    /\ Len(walk[CURSOR].requests) = 2

(***************************************************************************)
(* current_user_recently_played_tracks: the de-duplication of the play     *)
(* history that all_cursor_based_paging_items collected.                   *)
(***************************************************************************)
MaxHistory == 3
Names == {"X", "Y"}

\* The k-th play of a history has id k; `convertible` tells whether
\* Track::try_from_full_track accepts the track.
FullTracks(n) ==
    {[k \in 1..n |-> [name |-> f[k][1], id |-> k, convertible |-> f[k][2]]] :
        f \in [1..n -> Names \X BOOLEAN]}

PlayHistories ==
    UNION {{[k \in 1..n |-> [track |-> ts[k]]] : ts \in FullTracks(n)} :
              n \in 0..MaxHistory}

\* Track::try_from_full_track
TryFromFullTrack(track) ==
    IF track.convertible
    THEN Some([name |-> track.name, id |-> track.id])
    ELSE None

\* A scan that never looks at the names already kept.
ScanHistoryNoDedup(tracks, history) ==
    LET t == TryFromFullTrack(history.track)
    IN  IF t # None THEN Append(tracks, t.value) ELSE tracks

\* A scan that tells the tracks apart by their ids.
ScanHistoryById(tracks, history) ==
    IF ~ \E k \in 1..Len(tracks) : tracks[k].id = history.track.id
    THEN LET t == TryFromFullTrack(history.track)
         IN  IF t # None THEN Append(tracks, t.value) ELSE tracks
    ELSE tracks

\* The body of `for history in play_histories`.
ScanHistory(tracks, history) ==
    IF ~ \E k \in 1..Len(tracks) : tracks[k].name = history.track.name
    THEN LET t == TryFromFullTrack(history.track)
         IN  IF t # None THEN Append(tracks, t.value) ELSE tracks
    ELSE tracks

\* The call up to the loop: the walk of the play history fails, or it hands
\* over the collected history.
RecentlyPlayedCall ==
    /\ recent.pc = "idle"
    /\ \E got \in {Err("walk")} \cup {Ok(h) : h \in PlayHistories} :
        IF got.tag = "Err"
        THEN recent' = [recent EXCEPT !.pc = "done", !.result = got]
        ELSE recent' = [recent EXCEPT !.pc = "scan",
                                      !.play_histories = got.value,
                                      !.pos = 1, !.tracks = <<>>]
    /\ UNCHANGED otherThanRecent

RecentlyPlayedScan ==
    /\ recent.pc = "scan"
    /\ recent.pos <= Len(recent.play_histories)
    /\ recent' = [recent EXCEPT
                     !.tracks = ScanHistory(@, recent.play_histories[recent.pos]),
                     !.pos = @ + 1]
    /\ UNCHANGED otherThanRecent

RecentlyPlayedReturn ==
    /\ recent.pc = "scan"
    /\ recent.pos > Len(recent.play_histories)
    /\ recent' = [recent EXCEPT !.pc = "done", !.result = Ok(recent.tracks)]
    /\ UNCHANGED otherThanRecent

InitRecent ==
    /\ WalkUnused /\ RecentUnused /\ DiscogUnused /\ ReorderUnused
    /\ PatchUnused /\ SearchUnused /\ AddUnused
    /\ SessionUnused /\ FetchUnused /\ RadioUnused /\ ContextUnused

NextRecent ==
    \/ RecentlyPlayedCall
    \/ RecentlyPlayedScan
    \/ RecentlyPlayedReturn

SpecRecent == InitRecent /\ [][NextRecent]_vars

(***************************************************************************)
(* Claims about the recently-played de-duplication.                        *)
(***************************************************************************)
RECURSIVE TracksAt(_, _, _)
\* The tracks of the entries among the first n of history h whose index is in
\* keep, in history order.
TracksAt(h, n, keep) ==
    IF n = 0
    THEN <<>>
    ELSE IF n \in keep
         THEN Append(TracksAt(h, n - 1, keep),
                     [name |-> h[n].track.name, id |-> h[n].track.id])
         ELSE TracksAt(h, n - 1, keep)


\* Entry i is the first entry of the history with its name, and it converts.
IsFirstOfName(h, i) ==
    /\ h[i].track.convertible
    /\ \A j \in 1..(i - 1) : h[j].track.name # h[i].track.name

\* Entry i converts and no earlier entry of its name converts.
IsFirstConvertibleOfName(h, i) ==
    /\ h[i].track.convertible
    /\ \A j \in 1..(i - 1) :
        h[j].track.name = h[i].track.name => ~ h[j].track.convertible

\* The tracks that the two rules keep of the first n entries of a history.
FirstOfName(h, n) == TracksAt(h, n, {i \in 1..n : IsFirstOfName(h, i)})

FirstConvertibleOfName(h, n) ==
    TracksAt(h, n, {i \in 1..n : IsFirstConvertibleOfName(h, i)})

\* C4 as stated: the result holds, for each name, the first history entry of
\* that name (when it converts) and no later entry of a name seen before.
C4_KeepsFirstEntryOfName ==
    recent.pc = "done" /\ recent.result.tag = "Ok" =>
        recent.result.value =
            FirstOfName(recent.play_histories, Len(recent.play_histories))

\* C4 as amended: after each step of the scan, and in the result, the kept
\* tracks are, in history order, the entries that convert and have no
\* earlier converting entry of the same name; when every entry converts,
\* that is the first entry of each name.
C4_KeepsFirstConvertibleOfName ==
    LET h == recent.play_histories
    IN  /\ recent.pc = "scan" =>
            recent.tracks = FirstConvertibleOfName(h, recent.pos - 1)
        /\ recent.pc = "done" /\ recent.result.tag = "Ok" =>
            /\ recent.result.value = FirstConvertibleOfName(h, Len(h))
            /\ (\A i \in 1..Len(h) : h[i].track.convertible) =>
                  recent.result.value = FirstOfName(h, Len(h))

C4_Witness ==
    /\ recent.pc = "done"
    /\ Len(recent.play_histories) = 3
    /\ recent.play_histories[1].track = [name |-> "X", id |-> 1, convertible |-> FALSE]
    /\ recent.play_histories[2].track = [name |-> "Y", id |-> 2, convertible |-> TRUE]
    /\ recent.play_histories[3].track = [name |-> "X", id |-> 3, convertible |-> TRUE]
    /\ recent.result = Ok(<<[name |-> "Y", id |-> 2], [name |-> "X", id |-> 3]>>)

(***************************************************************************)
(* artist_albums and process_artist_albums: the albums and singles of an   *)
(* artist, converted, sorted by release date and de-duplicated by name.    *)
(***************************************************************************)
MaxAlbums == 3
AlbumNames == {"A", "B"}
ReleaseDates == {2020, 2022}

\* The simplified albums the two walks can return: n albums in all, the k-th
\* with id k; `convertible` tells whether Album::try_from_simplified_album
\* accepts it.
SimplifiedAlbums(n) ==
    {[k \in 1..n |-> [name |-> f[k][1], release_date |-> f[k][2], id |-> k,
                      convertible |-> f[k][3]]] :
        f \in [1..n -> AlbumNames \X ReleaseDates \X BOOLEAN]}

\* Album::try_from_simplified_album
TryFromSimplifiedAlbum(a) ==
    IF a.convertible
    THEN Some([name |-> a.name, release_date |-> a.release_date, id |-> a.id])
    ELSE None

RECURSIVE FilterMapAlbums(_, _)
\* `.into_iter().filter_map(Album::try_from_simplified_album).collect()` over
\* the first n elements.
FilterMapAlbums(s, n) ==
    IF n = 0
    THEN <<>>
    ELSE LET a == TryFromSimplifiedAlbum(s[n])
         IN  IF a # None
             THEN Append(FilterMapAlbums(s, n - 1), a.value)
             ELSE FilterMapAlbums(s, n - 1)

\* `x.release_date.partial_cmp(&y.release_date).unwrap()` is Less or Equal.
NotAfter(x, y) == x.release_date <= y.release_date

\* An insertion that puts a in front of the elements of its release date.
InsertBeforeEqualDates(sorted, a) ==
    LET k == Cardinality({i \in 1..Len(sorted) :
                             sorted[i].release_date < a.release_date})
    IN  SubSeq(sorted, 1, k) \o <<a>> \o SubSeq(sorted, k + 1, Len(sorted))

\* One insertion of a stable sort: a goes behind every element not after it.
InsertByReleaseDate(sorted, a) ==
    LET k == Cardinality({i \in 1..Len(sorted) : NotAfter(sorted[i], a)})
    IN  SubSeq(sorted, 1, k) \o <<a>> \o SubSeq(sorted, k + 1, Len(sorted))

RECURSIVE SortPrefix(_, _)
SortPrefix(s, n) ==
    IF n = 0 THEN <<>> ELSE InsertByReleaseDate(SortPrefix(s, n - 1), s[n])

Reverse(s) == [k \in 1..Len(s) |-> s[Len(s) + 1 - k]]

\* A sort with the comparison the wrong way round: newest first.
SortByReleaseDateDescending(albums) == Reverse(SortPrefix(albums, Len(albums)))

\* `albums.sort_by(|x, y| ..)`: a stable sort, oldest first.
SortByReleaseDate(albums) == SortPrefix(albums, Len(albums))

\* artist_albums up to the conversion: one of the two walks fails, or the
\* singles are appended to the albums and converted.
ArtistAlbumsCall ==
    /\ discog.pc = "idle"
    /\ \/ discog' = [discog EXCEPT !.pc = "done", !.result = Err("walk")]
       \/ \E n \in 0..MaxAlbums : \E fetched \in SimplifiedAlbums(n) :
          \E cut \in 0..n :
            LET mut_albums == SubSeq(fetched, 1, cut)
                singles == SubSeq(fetched, cut + 1, n)
                appended == mut_albums \o singles
                converted == FilterMapAlbums(appended, Len(appended))
            IN  discog' = [discog EXCEPT !.pc = "process",
                                         !.fetched_albums = mut_albums,
                                         !.fetched_singles = singles,
                                         !.arg = converted]
    /\ UNCHANGED otherThanDiscog

\* process_artist_albums up to the fold.
ProcessArtistAlbumsSort ==
    /\ discog.pc = "process"
    /\ discog' = [discog EXCEPT !.pc = "rfold",
                                !.albums = SortByReleaseDate(discog.arg),
                                !.seen_names = {}, !.acc = <<>>]
    /\ UNCHANGED otherThanDiscog

\* One step of `albums.into_iter().rfold(vec![], ..)`: the last album left.
ProcessArtistAlbumsFold ==
    /\ discog.pc = "rfold"
    /\ discog.albums # <<>>
    /\ LET a == discog.albums[Len(discog.albums)]
           rest == SubSeq(discog.albums, 1, Len(discog.albums) - 1)
       IN  IF a.name \notin discog.seen_names
           THEN discog' = [discog EXCEPT !.albums = rest,
                                         !.seen_names = @ \cup {a.name},
                                         !.acc = Append(@, a)]
           ELSE discog' = [discog EXCEPT !.albums = rest]
    /\ UNCHANGED otherThanDiscog

\* The fold is over: process_artist_albums and artist_albums return.
ProcessArtistAlbumsReturn ==
    /\ discog.pc = "rfold"
    /\ discog.albums = <<>>
    /\ discog' = [discog EXCEPT !.pc = "done", !.result = Ok(discog.acc)]
    /\ UNCHANGED otherThanDiscog

InitDiscog ==
    /\ WalkUnused /\ RecentUnused /\ DiscogUnused /\ ReorderUnused
    /\ PatchUnused /\ SearchUnused /\ AddUnused
    /\ SessionUnused /\ FetchUnused /\ RadioUnused /\ ContextUnused

NextDiscog ==
    \/ ArtistAlbumsCall
    \/ ProcessArtistAlbumsSort
    \/ ProcessArtistAlbumsFold
    \/ ProcessArtistAlbumsReturn

SpecDiscog == InitDiscog /\ [][NextDiscog]_vars

(***************************************************************************)
(* Claims about the artist-album merge.                                    *)
(***************************************************************************)
Range(s) == {s[k] : k \in 1..Len(s)}

NamesOf(s) == {s[k].name : k \in 1..Len(s)}

\* C5: process_artist_albums returns exactly one album per name of its input,
\* an album of the input with the greatest release date among the input
\* albums of that name, and no album of another name.
C5_LatestAlbumPerName ==
    discog.pc = "done" /\ discog.result.tag = "Ok" =>
        LET out == discog.result.value
        IN  /\ NamesOf(out) = NamesOf(discog.arg)
            /\ Len(out) = Cardinality(NamesOf(discog.arg))
            /\ Range(out) \subseteq Range(discog.arg)
            /\ \A k \in 1..Len(out) : \A a \in Range(discog.arg) :
                a.name = out[k].name => a.release_date <= out[k].release_date

C5_Witness ==
    /\ discog.pc = "done"
    /\ discog.arg = <<[name |-> "A", release_date |-> 2020, id |-> 1],
                      [name |-> "A", release_date |-> 2022, id |-> 2]>>
    /\ discog.result = Ok(<<[name |-> "A", release_date |-> 2022, id |-> 2]>>)

(***************************************************************************)
(* reorder_playlist_items.  A usize (64 bits) is written as four 16-bit    *)
(* limbs, the most significant first, so that the casts `as i32` and       *)
(* `as u32` keep the low 32 bits as the code does.  An i32 is an integer;  *)
(* a u32 is its two limbs.                                                 *)
(***************************************************************************)
MaxIndex == 5
LimbBase == 65536

Usize(k) == <<0, 0, 0, k>>
I32Max == <<0, 0, (LimbBase \div 2) - 1, LimbBase - 1>>
UsizeMax == <<LimbBase - 1, LimbBase - 1, LimbBase - 1, LimbBase - 1>>

\* Playlist positions, and the sizes at which a cast or the addition cuts.
Usizes ==
    {Usize(k) : k \in 0..MaxIndex}
        \cup {<<0, 0, (LimbBase \div 2) - 1, LimbBase - 2>>,  \* i32::MAX - 1
              I32Max,
              <<0, 0, LimbBase \div 2, 0>>,                   \* i32::MAX + 1
              <<0, 0, LimbBase - 1, LimbBase - 1>>,           \* u32::MAX
              <<0, 1, 0, 0>>,                                 \* u32::MAX + 1
              UsizeMax}

\* `a > b` on usize.
UsizeGt(a, b) ==
    \E i \in 1..4 : a[i] > b[i] /\ \A j \in 1..(i - 1) : a[j] = b[j]

\* `a + 1` on usize, wrapped; `overflow` tells whether it wrapped.
UsizeAddOne(a) ==
    LET carry == {i \in 1..4 : \A j \in i..4 : a[j] = LimbBase - 1}
    IN  [overflow |-> 1 \in carry,
         value    |-> [i \in 1..4 |->
                          IF i \in carry THEN 0
                          ELSE IF i + 1 \in carry \/ i = 4 THEN a[i] + 1
                          ELSE a[i]]]

\* `a as i32`: the low 32 bits, in two's complement.
AsI32(a) ==
    IF a[3] >= LimbBase \div 2
    THEN (a[3] - LimbBase) * LimbBase + a[4]
    ELSE a[3] * LimbBase + a[4]

\* `a as u32`: the low 32 bits.
AsU32(a) == <<a[3], a[4]>>

\* `range_length.map(|range_length| range_length as u32)`
MapAsU32(opt) == IF opt = None THEN None ELSE Some(AsU32(opt.value))

\* reorder_playlist_items up to the upstream call.  `overflow_checks` is the
\* build's setting: with it `insert_index + 1` panics on overflow, without it
\* the sum wraps.
ReorderPlaylistItemsCall ==
    /\ reorder.pc = "idle"
    /\ \E insert_index \in Usizes, range_start \in Usizes,
          range_length \in {None} \cup {Some(n) : n \in Usizes},
          snapshot_id \in {None, Some("snapshot")},
          overflow_checks \in BOOLEAN :
        LET args == [insert_index |-> insert_index, range_start |-> range_start,
                     range_length |-> range_length, snapshot_id |-> snapshot_id,
                     overflow_checks |-> overflow_checks]
            sum == UsizeAddOne(insert_index)
            insert_before ==
                IF UsizeGt(insert_index, range_start)
                THEN sum.value
                ELSE insert_index
        IN  IF UsizeGt(insert_index, range_start) /\ sum.overflow
               /\ overflow_checks
            THEN reorder' = [reorder EXCEPT !.pc = "done", !.args = Some(args),
                                            !.result = [tag |-> "Panic"]]
            ELSE reorder' =
                    [reorder EXCEPT
                        !.pc = "sent", !.args = Some(args),
                        !.sent = Some([range_start   |-> Some(AsI32(range_start)),
                                       insert_before |-> Some(AsI32(insert_before)),
                                       range_length  |-> MapAsU32(range_length),
                                       snapshot_id   |-> snapshot_id])]
    /\ UNCHANGED otherThanReorder

\* `self.playlist_reorder_items(..).await?; Ok(())`
ReorderPlaylistItemsReturn ==
    /\ reorder.pc = "sent"
    /\ \E got \in {Ok("unit"), Err("playlist_reorder_items")} :
        reorder' = [reorder EXCEPT !.pc = "done", !.result = got]
    /\ UNCHANGED otherThanReorder

InitReorder ==
    /\ WalkUnused /\ RecentUnused /\ DiscogUnused /\ ReorderUnused
    /\ PatchUnused /\ SearchUnused /\ AddUnused
    /\ SessionUnused /\ FetchUnused /\ RadioUnused /\ ContextUnused

NextReorder ==
    \/ ReorderPlaylistItemsCall
    \/ ReorderPlaylistItemsReturn

SpecReorder == InitReorder /\ [][NextReorder]_vars

(***************************************************************************)
(* Claims about reorder_playlist_items.                                    *)
(***************************************************************************)
\* The number a usize n stands for is the i32 v.
UsizeIsI32(n, v) ==
    /\ n[1] = 0 /\ n[2] = 0 /\ n[3] < LimbBase \div 2
    /\ v = n[3] * LimbBase + n[4]

\* The number a usize n stands for is the u32 u.
UsizeIsU32(n, u) == n[1] = 0 /\ n[2] = 0 /\ u = <<n[3], n[4]>>

\* C6: once called, reorder_playlist_items has sent a request whose
\* insert_before is insert_index + 1 when insert_index > range_start and
\* insert_index otherwise, with range_start, range_length and snapshot_id as
\* given.
C6_ReorderInsertBefore ==
    reorder.pc # "idle" =>
        /\ reorder.sent # None
        /\ LET a == reorder.args.value
               s == reorder.sent.value
           IN  /\ IF UsizeGt(a.insert_index, a.range_start)
                  THEN /\ s.insert_before.value >= 1
                       /\ UsizeIsI32(a.insert_index, s.insert_before.value - 1)
                  ELSE UsizeIsI32(a.insert_index, s.insert_before.value)
               /\ UsizeIsI32(a.range_start, s.range_start.value)
               /\ (a.range_length = None) <=> (s.range_length = None)
               /\ a.range_length # None =>
                     UsizeIsU32(a.range_length.value, s.range_length.value)
               /\ s.snapshot_id = a.snapshot_id

\* The same rule for positions and lengths that fit the request's integer
\* types.
C6_ReorderInsertBeforeInRange ==
    (/\ reorder.pc # "idle"
     /\ UsizeGt(I32Max, reorder.args.value.insert_index)
     /\ ~ UsizeGt(reorder.args.value.range_start, I32Max)
     /\ reorder.args.value.range_length # None =>
           ~ UsizeGt(reorder.args.value.range_length.value,
                     <<0, 0, LimbBase - 1, LimbBase - 1>>))
        => C6_ReorderInsertBefore

(***************************************************************************)
(* process_spotify_api_response.  A body is a sequence of characters.      *)
(***************************************************************************)
MaxFragments == 2
MaxPasses == 2

ImagesNull == <<"\"", "i", "m", "a", "g", "e", "s", "\"", ":", "n", "u", "l", "l">>
ImagesEmpty == <<"\"", "i", "m", "a", "g", "e", "s", "\"", ":", "[", "]">>

\* Pieces of response bodies: the defective field, the patched field, and the
\* parts of both that can meet across a boundary.
Fragments ==
    {ImagesNull,
     ImagesEmpty,
     <<"\"", "i", "m", "a", "g", "e", "s", "\"", ":">>,
     <<"n", "u", "l", "l">>,
     <<"\"", "i", "m", "a", "g", "e", "s", "\"", ":", "n", "u">>,
     <<"l", "l">>,
     <<"\"">>,
     <<"i", "m", "a", "g", "e", "s", "\"", ":", "n", "u", "l", "l">>,
     <<"\"", "i", "m", "a", "g", "e", "s", "\"", ":", " ", "n", "u", "l", "l">>,
     <<"{", "\"", "i", "d", "\"", ":", "1", "}">>}

RECURSIVE TextsOf(_)
\* The bodies made of at most n fragments.
TextsOf(n) ==
    IF n = 0
    THEN {<<>>}
    ELSE TextsOf(n - 1) \cup {t \o f : t \in TextsOf(n - 1), f \in Fragments}

MatchesAt(text, i, pat) ==
    /\ i + Len(pat) - 1 <= Len(text)
    /\ \A k \in 1..Len(pat) : text[i + k - 1] = pat[k]

RECURSIVE ReplaceFrom(_, _, _, _, _)
\* str::replace / str::replacen from position i on: the matches are found
\* left to right, without overlap, and at most `count` of them are replaced.
ReplaceFrom(text, i, from, to, count) ==
    IF i > Len(text)
    THEN <<>>
    ELSE IF count > 0 /\ MatchesAt(text, i, from)
         THEN to \o ReplaceFrom(text, i + Len(from), from, to, count - 1)
         ELSE <<text[i]>> \o ReplaceFrom(text, i + 1, from, to, count)

\* `text.replace(from, to)`
Replace(text, from, to) == ReplaceFrom(text, 1, from, to, Len(text))

\* A rewrite of the first defective field only.
ProcessFirstOnly(text) == ReplaceFrom(text, 1, ImagesNull, ImagesEmpty, 1)

\* `text.replace("\"images\":null", "\"images\":[]")`
ProcessSpotifyApiResponse(text) == Replace(text, ImagesNull, ImagesEmpty)

\* http_get rewrites the body it received.
HttpGetRewrite ==
    /\ patch.passes = <<>>
    /\ \E text \in TextsOf(MaxFragments) :
        patch' = [text |-> text, passes |-> <<ProcessSpotifyApiResponse(text)>>]
    /\ UNCHANGED otherThanPatch

\* The rewrite run on text that is already rewritten.
RewriteAgain ==
    /\ patch.passes # <<>>
    /\ Len(patch.passes) < MaxPasses
    /\ patch' = [patch EXCEPT
                    !.passes = Append(@, ProcessSpotifyApiResponse(@[Len(@)]))]
    /\ UNCHANGED otherThanPatch

InitPatch ==
    /\ WalkUnused /\ RecentUnused /\ DiscogUnused /\ ReorderUnused
    /\ PatchUnused /\ SearchUnused /\ AddUnused
    /\ SessionUnused /\ FetchUnused /\ RadioUnused /\ ContextUnused

NextPatch ==
    \/ HttpGetRewrite
    \/ RewriteAgain

SpecPatch == InitPatch /\ [][NextPatch]_vars

(***************************************************************************)
(* Claims about the response rewrite.                                      *)
(***************************************************************************)
Contains(text, pat) == \E i \in 1..Len(text) : MatchesAt(text, i, pat)

\* C7: a rewrite of rewritten text changes nothing, and the rewrite returns
\* a text without `"images":null` as it is.
C7_RewriteIdempotent ==
    /\ \A k \in 2..Len(patch.passes) : patch.passes[k] = patch.passes[k - 1]
    /\ (patch.passes # <<>> /\ ~ Contains(patch.text, ImagesNull)) =>
          patch.passes[1] = patch.text

C7_Witness ==
    /\ Len(patch.passes) = 2
    /\ patch.text = ImagesNull \o ImagesNull
    /\ patch.passes[1] = ImagesEmpty \o ImagesEmpty
    /\ patch.passes[2] = patch.passes[1]

(***************************************************************************)
(* search: four search_specific_type calls joined by tokio::try_join!,     *)
(* then matched against the kind each one asked for.                       *)
(***************************************************************************)
\* The variants of rspotify_model::SearchResult.
SearchKinds == {"Tracks", "Artists", "Albums", "Playlists", "Shows"}

\* The variant a search of type t is meant to return.
ExpectedKind(t) ==
    CASE t = "Track" -> "Tracks"
      [] t = "Artist" -> "Artists"
      [] t = "Album" -> "Albums"
      [] t = "Playlist" -> "Playlists"

\* The items of a result page: none, or one item that converts and one that
\* does not.
SearchPages ==
    {<<>>,
     <<[name |-> "X", release_date |-> 2020, id |-> 1, convertible |-> TRUE],
       [name |-> "Y", release_date |-> 2022, id |-> 2, convertible |-> FALSE]>>}

\* What one search_specific_type call can return.
SearchOutcomes(t) ==
    {Err([search_type |-> t])}
        \cup {Ok([kind |-> k, items |-> p]) : k \in SearchKinds, p \in SearchPages}

RECURSIVE FilterMapTracksUntilFailure(_, _)
\* A collection that has nothing when one of the first n conversions fails.
FilterMapTracksUntilFailure(s, n) ==
    IF n = 0
    THEN <<>>
    ELSE LET t == TryFromFullTrack(s[n])
         IN  IF t # None /\ \A k \in 1..(n - 1) : TryFromFullTrack(s[k]) # None
             THEN Append(FilterMapTracksUntilFailure(s, n - 1), t.value)
             ELSE <<>>

RECURSIVE FilterMapTracks(_, _)
\* `.into_iter().filter_map(Track::try_from_full_track).collect()` over the
\* first n elements.
FilterMapTracks(s, n) ==
    IF n = 0
    THEN <<>>
    ELSE LET t == TryFromFullTrack(s[n])
         IN  IF t # None
             THEN Append(FilterMapTracks(s, n - 1), t.value)
             ELSE FilterMapTracks(s, n - 1)

\* From<SimplifiedPlaylist> for Playlist.
PlaylistFrom(p) == [playlist |-> p]

\* `p.items.into_iter().filter_map(Track::try_from_full_track).collect()`
TracksOf(page) == FilterMapTracks(page.items, Len(page.items))

\* `p.items.into_iter().map(|a| a.into()).collect()`
ArtistsOf(page) == [k \in 1..Len(page.items) |-> ArtistFrom(page.items[k])]

\* `p.items.into_iter().filter_map(Album::try_from_simplified_album).collect()`
AlbumsOf(page) == FilterMapAlbums(page.items, Len(page.items))

\* `p.items.into_iter().map(|i| i.into()).collect()`
PlaylistsOf(page) == [k \in 1..Len(page.items) |-> PlaylistFrom(page.items[k])]

\* A match that puts an empty list where the kind is not the one asked for.
SearchAssembleLenient(b) ==
    Ok([tracks    |-> IF b["Track"].value.kind = "Tracks"
                      THEN TracksOf(b["Track"].value)
                      ELSE <<>>,
        artists   |-> IF b["Artist"].value.kind = "Artists"
                      THEN ArtistsOf(b["Artist"].value)
                      ELSE <<>>,
        albums    |-> IF b["Album"].value.kind = "Albums"
                      THEN AlbumsOf(b["Album"].value)
                      ELSE <<>>,
        playlists |-> IF b["Playlist"].value.kind = "Playlists"
                      THEN PlaylistsOf(b["Playlist"].value)
                      ELSE <<>>])

\* The four `match` expressions, evaluated in order, and the SearchResults
\* built from them; b holds the four Ok results.
SearchAssemble(b) ==
    IF b["Track"].value.kind # "Tracks"
    THEN Err("expect a track search result")
    ELSE IF b["Artist"].value.kind # "Artists"
    THEN Err("expect an artist search result")
    ELSE IF b["Album"].value.kind # "Albums"
    THEN Err("expect an album search result")
    ELSE IF b["Playlist"].value.kind # "Playlists"
    THEN Err("expect a playlist search result")
    ELSE Ok([tracks    |-> TracksOf(b["Track"].value),
             artists   |-> ArtistsOf(b["Artist"].value),
             albums    |-> AlbumsOf(b["Album"].value),
             playlists |-> PlaylistsOf(b["Playlist"].value)])

\* A join that keeps waiting for the other branches after a failure.
SearchJoinWaitAll(t, got) ==
    search' = [search EXCEPT !.branch[t] = got]

\* try_join! sees branch t complete with `got`: an Err ends the join at once
\* with that error; the fourth Ok ends it with the four results, which the
\* rest of search matches without suspending.
SearchJoin(t, got) ==
    IF got.tag = "Err"
    THEN search' = [search EXCEPT !.pc = "done", !.branch[t] = got,
                                  !.result = got]
    ELSE LET b == [search.branch EXCEPT ![t] = got]
         IN  IF \A u \in SearchTypes : b[u].tag = "Ok"
             THEN search' = [pc |-> "done", branch |-> b,
                             result |-> SearchAssemble(b)]
             ELSE search' = [search EXCEPT !.branch = b]

\* `tokio::try_join!(..)`: the four branches start.
SearchCall ==
    /\ search.pc = "idle"
    /\ search' = [search EXCEPT !.pc = "join"]
    /\ UNCHANGED otherThanSearch

\* One search_specific_type call completes.
SearchSpecificTypeReturn ==
    /\ search.pc = "join"
    /\ \E t \in SearchTypes :
        /\ search.branch[t] = Pending
        /\ \E got \in SearchOutcomes(t) : SearchJoin(t, got)
    /\ UNCHANGED otherThanSearch

InitSearch ==
    /\ WalkUnused /\ RecentUnused /\ DiscogUnused /\ ReorderUnused
    /\ PatchUnused /\ SearchUnused /\ AddUnused
    /\ SessionUnused /\ FetchUnused /\ RadioUnused /\ ContextUnused

NextSearch ==
    \/ SearchCall
    \/ SearchSpecificTypeReturn

SpecSearch == InitSearch /\ [][NextSearch]_vars

(***************************************************************************)
(* Claims about search.                                                    *)
(***************************************************************************)
AllBranchesOk == \A t \in SearchTypes : search.branch[t].tag = "Ok"

Mismatched(t) == search.branch[t].value.kind # ExpectedKind(t)

\* C8: when the four sub-searches have returned and one of them returned a
\* result of another kind than it asked for, search returns an error; an Ok
\* result holds in each field the converted items of the branch of that
\* kind, which returned that kind.
C8_MismatchedKindFails ==
    search.pc = "done" /\ AllBranchesOk =>
        /\ (\E t \in SearchTypes : Mismatched(t)) => search.result.tag = "Err"
        /\ search.result.tag = "Ok" =>
            /\ \A t \in SearchTypes : ~ Mismatched(t)
            /\ search.result.value.tracks =
                  TracksOf(search.branch["Track"].value)
            /\ search.result.value.artists =
                  ArtistsOf(search.branch["Artist"].value)
            /\ search.result.value.albums =
                  AlbumsOf(search.branch["Album"].value)
            /\ search.result.value.playlists =
                  PlaylistsOf(search.branch["Playlist"].value)

C8_Witness ==
    /\ search.pc = "done"
    /\ AllBranchesOk
    /\ search.branch["Track"].value.kind = "Albums"
    /\ \A t \in SearchTypes \ {"Track"} : ~ Mismatched(t)
    /\ search.result = Err("expect a track search result")

\* C9: in every order of completion, search has returned Ok only when all
\* four branches returned Ok, and as soon as a branch has failed search has
\* returned the error of a failed branch; until then it has returned nothing.
C9_JoinAllOrFail ==
    /\ search.result.tag = "Ok" => AllBranchesOk
    /\ (\E t \in SearchTypes : search.branch[t].tag = "Err") =>
          /\ search.pc = "done"
          /\ search.result.tag = "Err"
          /\ \E t \in SearchTypes : search.branch[t] = search.result
    /\ search.pc # "done" => search.result = Pending

C9_Witness ==
    /\ search.pc = "done"
    /\ search.branch["Playlist"].tag = "Ok"
    /\ search.branch["Album"].tag = "Err"
    /\ search.branch["Track"] = Pending
    /\ search.result = search.branch["Album"]

(***************************************************************************)
(* add_track_to_playlist, against a playlist held upstream.                *)
(***************************************************************************)
MaxPlaylist == 3
TrackIds == {"t1", "t2", "t3"}

Playlists == UNION {[1..n -> TrackIds] : n \in 0..MaxPlaylist}

RECURSIVE Without(_, _)
\* Upstream's answer to playlist_remove_all_occurrences_of_items: every
\* occurrence of the track leaves the playlist.
Without(items, track) ==
    IF items = <<>>
    THEN <<>>
    ELSE IF items[Len(items)] = track
         THEN Without(SubSeq(items, 1, Len(items) - 1), track)
         ELSE Append(Without(SubSeq(items, 1, Len(items) - 1), track),
                     items[Len(items)])

\* Upstream's answer to playlist_add_items with no position: the track goes
\* to the end.
WithAdded(items, track) == Append(items, track)

AddTrackToPlaylistCall(c) ==
    /\ adder[c].pc = "idle"
    /\ \E track_id \in TrackIds :
        adder' = [adder EXCEPT ![c] =
                     [@ EXCEPT !.pc = "remove",
                               !.op = "add_track_to_playlist",
                               !.track_id = track_id,
                               !.before = playlist]]
    /\ UNCHANGED <<playlist, otherThanAdd>>

\* A first request that removes nothing.
AddTrackToPlaylistRemoveNothing(c) ==
    /\ adder[c].pc = "remove"
    /\ adder' = [adder EXCEPT ![c] =
                    [@ EXCEPT !.pc = "add",
                              !.requests = Append(@, [op |-> "remove_all_occurrences",
                                                      track |-> adder[c].track_id])]]
    /\ UNCHANGED <<playlist, otherThanAdd>>

\* `self.playlist_remove_all_occurrences_of_items(..).await?`
AddTrackToPlaylistRemove(c) ==
    /\ adder[c].pc = "remove"
    /\ LET req == [op |-> "remove_all_occurrences", track |-> adder[c].track_id]
       IN  \/ /\ adder' = [adder EXCEPT ![c] =
                              [@ EXCEPT !.pc = "done",
                                        !.requests = Append(@, req),
                                        !.result = Err(req)]]
              /\ UNCHANGED playlist
           \/ /\ adder' = [adder EXCEPT ![c] =
                              [@ EXCEPT !.pc = "add",
                                        !.requests = Append(@, req)]]
              /\ playlist' = Without(playlist, adder[c].track_id)
    /\ UNCHANGED otherThanAdd

\* `self.playlist_add_items(..).await?; Ok(())`
AddTrackToPlaylistAdd(c) ==
    /\ adder[c].pc = "add"
    /\ LET req == [op |-> "add_items", track |-> adder[c].track_id]
       IN  \/ /\ adder' = [adder EXCEPT ![c] =
                              [@ EXCEPT !.pc = "done",
                                        !.requests = Append(@, req),
                                        !.result = Err(req)]]
              /\ UNCHANGED playlist
           \/ /\ adder' = [adder EXCEPT ![c] =
                              [@ EXCEPT !.pc = "done",
                                        !.requests = Append(@, req),
                                        !.result = Ok("unit")]]
              /\ playlist' = WithAdded(playlist, adder[c].track_id)
    /\ UNCHANGED otherThanAdd

DeleteTrackFromPlaylistCall(c) ==
    /\ adder[c].pc = "idle"
    /\ \E track_id \in TrackIds :
        adder' = [adder EXCEPT ![c] =
                     [@ EXCEPT !.pc = "delete",
                               !.op = "delete_track_from_playlist",
                               !.track_id = track_id,
                               !.before = playlist]]
    /\ UNCHANGED <<playlist, otherThanAdd>>

\* delete_track_from_playlist:
\* `self.playlist_remove_all_occurrences_of_items(..).await?; Ok(())`
DeleteTrackFromPlaylistRemove(c) ==
    /\ adder[c].pc = "delete"
    /\ LET req == [op |-> "remove_all_occurrences", track |-> adder[c].track_id]
       IN  \/ /\ adder' = [adder EXCEPT ![c] =
                              [@ EXCEPT !.pc = "done",
                                        !.requests = Append(@, req),
                                        !.result = Err(req)]]
              /\ UNCHANGED playlist
           \/ /\ adder' = [adder EXCEPT ![c] =
                              [@ EXCEPT !.pc = "done",
                                        !.requests = Append(@, req),
                                        !.result = Ok("unit")]]
              /\ playlist' = Without(playlist, adder[c].track_id)
    /\ UNCHANGED otherThanAdd

\* One caller, and no other writer of the playlist.
InitAdd ==
    /\ WalkUnused /\ RecentUnused /\ DiscogUnused /\ ReorderUnused
    /\ PatchUnused /\ SearchUnused
    /\ SessionUnused /\ FetchUnused /\ RadioUnused /\ ContextUnused
    /\ playlist \in Playlists
    /\ adder = [c \in Callers |-> IdleAdder]

NextAdd ==
    \/ AddTrackToPlaylistCall("c1")
    \/ AddTrackToPlaylistRemove("c1")
    \/ AddTrackToPlaylistAdd("c1")
    \/ DeleteTrackFromPlaylistCall("c1")
    \/ DeleteTrackFromPlaylistRemove("c1")

SpecAdd == InitAdd /\ [][NextAdd]_vars

(***************************************************************************)
(* Claims about add_track_to_playlist.                                     *)
(***************************************************************************)
Count(items, track) == Cardinality({k \in 1..Len(items) : items[k] = track})

IsPrefix(s, t) == Len(s) <= Len(t) /\ s = SubSeq(t, 1, Len(s))

\* C10: the requests of a caller of add_track_to_playlist are, in this
\* order, the removal of all occurrences of the track and one addition of
\* it; after a successful call with no other writer the track occurs exactly
\* once in the playlist, at its end, and the other items are those of
\* before, in the same order.
C10_RemoveThenAddOnce ==
    LET a == adder["c1"]
        both == <<[op |-> "remove_all_occurrences", track |-> a.track_id],
                  [op |-> "add_items", track |-> a.track_id]>>
    IN  a.op = "add_track_to_playlist" =>
            /\ IsPrefix(a.requests, both)
            /\ (a.pc = "done" /\ a.result.tag = "Ok") =>
                /\ a.requests = both
                /\ Count(playlist, a.track_id) = 1
                /\ playlist[Len(playlist)] = a.track_id
                /\ Without(playlist, a.track_id) = Without(a.before, a.track_id)

C10_Witness ==
    /\ adder["c1"].op = "add_track_to_playlist"
    /\ adder["c1"].pc = "done"
    /\ adder["c1"].result.tag = "Ok"
    /\ adder["c1"].track_id = "t1"
    /\ adder["c1"].before = <<"t1", "t2", "t1">>
    /\ playlist = <<"t2", "t1">>

(***************************************************************************)
(* radio_tracks: two Mercury queries, then the lookup of the tracks.       *)
(***************************************************************************)
MaxBlocks == 2
MaxRadioTracks == 2
SeedUris == {"spotify:track:seed"}
StatusCodes == {200, 404}
Gids == {"g1", "bad"}

\* An operation that aborted the thread instead of returning.
Panic(at) == [tag |-> "Panic", at |-> at]

\* The blocks of the payload of a Mercury response: bytes that are or are
\* not UTF-8 text, and bytes that are or are not the JSON of a
\* RadioStationResponse.
AutoplayBlocks ==
    {[utf8 |-> TRUE, text |-> "spotify:station:seed"],
     [utf8 |-> FALSE, text |-> ""]}

StationBlocks ==
    {[json |-> FALSE, tracks |-> <<>>]}
        \cup UNION {{[json |-> TRUE,
                      tracks |-> [k \in 1..n |-> [original_gid |-> g[k]]]] :
                         g \in [1..n -> Gids]} : n \in 0..MaxRadioTracks}

PayloadsOf(blocks) == UNION {[1..n -> blocks] : n \in 0..MaxBlocks}

\* What `session.mercury().get(url).await` resolves to.
MercuryOutcomes(blocks) ==
    {Err("mercury")}
        \cup {Ok([status_code |-> c, payload |-> p]) :
                 c \in StatusCodes, p \in PayloadsOf(blocks)}

\* String::from_utf8
FromUtf8(block) == IF block.utf8 THEN Ok(block.text) ELSE Err("FromUtf8Error")

\* serde_json::from_slice::<RadioStationResponse>
FromSlice(block) ==
    IF block.json THEN Ok([tracks |-> block.tracks]) ELSE Err("serde_json")

\* TrackId::from_id
TrackIdFromId(gid) == IF gid = "bad" THEN Err("IdError") ELSE Ok(gid)

RECURSIVE FilterMapTrackIds(_, _)
\* `.into_iter().filter_map(|t| TrackId::from_id(t.original_gid).ok())` over
\* the first n elements.
FilterMapTrackIds(s, n) ==
    IF n = 0
    THEN <<>>
    ELSE LET id == TrackIdFromId(s[n].original_gid)
         IN  IF id.tag = "Ok"
             THEN Append(FilterMapTrackIds(s, n - 1), id.value)
             ELSE FilterMapTrackIds(s, n - 1)

\* What `self.tracks(track_ids, ..).await` resolves to: an error, or one full
\* track per id, in the order of the ids.
TracksOutcomes(ids) ==
    {Err("tracks")}
        \cup {Ok([k \in 1..Len(ids) |->
                     [name |-> ids[k], id |-> k, convertible |-> c[k]]]) :
                 c \in [1..Len(ids) -> BOOLEAN]}

RadioReturn(response, result) ==
    radio' = [radio EXCEPT !.pc = "done",
                           !.responses = Append(@, response),
                           !.result = result]

RadioRequest(response, pc, request) ==
    radio' = [radio EXCEPT !.pc = pc,
                           !.responses = Append(@, response),
                           !.requests = Append(@, request)]

\* `session.mercury().get(autoplay_query_url)` is issued.
RadioTracksCall ==
    /\ radio.pc = "idle"
    /\ \E seed_uri \in SeedUris :
        radio' = [radio EXCEPT !.pc = "autoplay",
                               !.requests = <<[to |-> "autoplay",
                                               arg |-> seed_uri]>>]
    /\ UNCHANGED otherThanRadio

\* The autoplay query resolves: from `.await` to the next `.await` or return.
RadioAutoplayAnswered ==
    /\ radio.pc = "autoplay"
    /\ \E response \in MercuryOutcomes(AutoplayBlocks) :
        IF response.tag = "Err"
        THEN RadioReturn(response, Err("autoplay: Mercury error"))
        ELSE IF response.value.status_code # 200
        THEN RadioReturn(response, Err("autoplay: non-OK status code"))
        ELSE IF response.value.payload = <<>>
        THEN RadioReturn(response, Panic("payload[0]"))
        ELSE LET autoplay_uri == FromUtf8(response.value.payload[1])
             IN  IF autoplay_uri.tag = "Err"
                 THEN RadioReturn(response, Err(autoplay_uri.error))
                 ELSE RadioRequest(response, "station",
                                   [to |-> "station",
                                    arg |-> autoplay_uri.value])
    /\ UNCHANGED otherThanRadio

\* The station query resolves.
RadioStationAnswered ==
    /\ radio.pc = "station"
    /\ \E response \in MercuryOutcomes(StationBlocks) :
        IF response.tag = "Err"
        THEN RadioReturn(response, Err("radio data: Mercury error"))
        ELSE IF response.value.status_code # 200
        THEN RadioReturn(response, Err("radio data: non-OK status code"))
        ELSE IF response.value.payload = <<>>
        THEN RadioReturn(response, Panic("payload[0]"))
        ELSE LET station == FromSlice(response.value.payload[1])
             IN  IF station.tag = "Err"
                 THEN RadioReturn(response, Err(station.error))
                 ELSE LET tracks == station.value.tracks
                          track_ids == FilterMapTrackIds(tracks, Len(tracks))
                      IN  RadioRequest(response, "tracks",
                                       [to |-> "tracks", arg |-> track_ids])
    /\ UNCHANGED otherThanRadio

\* The lookup of the tracks resolves.
RadioTracksAnswered ==
    /\ radio.pc = "tracks"
    /\ \E response \in TracksOutcomes(radio.requests[3].arg) :
        IF response.tag = "Err"
        THEN RadioReturn(response, Err(response.error))
        ELSE RadioReturn(response,
                         Ok(FilterMapTracks(response.value,
                                            Len(response.value))))
    /\ UNCHANGED otherThanRadio

InitRadio ==
    /\ WalkUnused /\ RecentUnused /\ DiscogUnused /\ ReorderUnused
    /\ PatchUnused /\ SearchUnused /\ AddUnused
    /\ SessionUnused /\ FetchUnused /\ RadioUnused /\ ContextUnused

NextRadio ==
    \/ RadioTracksCall
    \/ RadioAutoplayAnswered
    \/ RadioStationAnswered
    \/ RadioTracksAnswered

SpecRadio == InitRadio /\ [][NextRadio]_vars

(***************************************************************************)
(* Claims about radio_tracks and about aborts.                             *)
(***************************************************************************)
\* C11: no operation aborts: whatever the upstream answers, a finished
\* operation has returned Ok or Err.
C11_NoOperationPanics ==
    /\ radio.result.tag # "Panic"
    /\ reorder.result.tag # "Panic"

\* The hop of radio_tracks (1: autoplay, 2: station) whose answer is a
\* failure: a transport error, a status other than 200, or a payload that
\* does not parse.
HopFailed(k) ==
    LET r == radio.responses[k]
    IN  \/ r.tag = "Err"
        \/ r.value.status_code # 200
        \/ r.value.payload = <<>>
        \/ k = 1 /\ ~ r.value.payload[1].utf8
        \/ k = 2 /\ ~ r.value.payload[1].json

RadioOrder == <<"autoplay", "station", "tracks">>

\* C15: the requests of radio_tracks are issued in the order autoplay,
\* station, tracks, each after the answer to the one before, a later one
\* only if no earlier hop failed; a failed hop makes radio_tracks return an
\* error, with no later request and no track list.
C15_RadioStepsInOrder ==
    /\ Len(radio.requests) <= 3
    /\ \A k \in 1..Len(radio.requests) : radio.requests[k].to = RadioOrder[k]
    /\ Len(radio.responses) <= Len(radio.requests)
    /\ Len(radio.requests) <= Len(radio.responses) + 1
    /\ \A k \in 1..Len(radio.responses) :
        (k <= 2 /\ HopFailed(k)) =>
            /\ Len(radio.requests) = k
            /\ radio.pc = "done"
            /\ radio.result.tag = "Err"

\* The part of C15 that is about the order of the requests only.
C15_RequestsInOrder ==
    /\ Len(radio.requests) <= 3
    /\ \A k \in 1..Len(radio.requests) : radio.requests[k].to = RadioOrder[k]
    /\ Len(radio.responses) <= Len(radio.requests)
    /\ Len(radio.requests) <= Len(radio.responses) + 1
    /\ \A k \in 1..Len(radio.responses) :
        (k <= 2 /\ HopFailed(k)) =>
            /\ Len(radio.requests) = k
            /\ radio.pc = "done"
            /\ radio.result.tag # "Ok"

(***************************************************************************)
(* The held session: Spotify::session, check_valid_session, new_session.   *)
(* A task is "idle" before a call, "lock_read" / "lock_write" while it     *)
(* waits in `self.session.lock().await`, "done" when its call returned.    *)
(***************************************************************************)
MaxSessions == 3
MaxCalls == 2
SessionOps == {"check_valid_session", "session"}

\* A session with the credentials of one session and the connection of
\* another is no session that auth::new_session ever returned.
Complete(s) == s.credentials = s.connection

\* Session::is_invalid
IsInvalid(s) == s.connection \in invalid

\* The connection of the held session is lost.
SessionBecomesInvalid ==
    /\ held # None
    /\ Complete(held.value)
    /\ ~ IsInvalid(held.value)
    /\ invalid' = invalid \cup {held.value.connection}
    /\ UNCHANGED <<held, lock, created, task, otherThanSession>>

\* A task calls check_valid_session, or reads the session as every
\* operation that uses the session does.
SessionCall(t) ==
    /\ task[t].pc = "idle"
    /\ task[t].calls < MaxCalls
    /\ \E op \in SessionOps :
        task' = [task EXCEPT ![t] =
                    [IdleTask EXCEPT !.pc = "lock_read", !.op = op,
                                     !.calls = task[t].calls + 1]]
    /\ UNCHANGED <<held, lock, invalid, created, otherThanSession>>

\* Spotify::session: `self.session.lock().await` resolves.
SessionLock(t) ==
    /\ task[t].pc = "lock_read"
    /\ lock = "free"
    /\ lock' = t
    /\ task' = [task EXCEPT ![t].pc = "read"]
    /\ UNCHANGED <<held, invalid, created, otherThanSession>>

\* Spotify::session: the held session is cloned and the guard dropped.
SessionRead(t) ==
    /\ task[t].pc = "read"
    /\ lock' = "free"
    /\ task' = [task EXCEPT ![t].pc = "got", ![t].got = held]
    /\ UNCHANGED <<held, invalid, created, otherThanSession>>

\* A plain read returns the session it cloned.
SessionReturn(t) ==
    /\ task[t].pc = "got"
    /\ task[t].op = "session"
    /\ task' = [task EXCEPT ![t].pc = "done", ![t].result = Ok(task[t].got)]
    /\ UNCHANGED <<held, lock, invalid, created, otherThanSession>>

\* A check that re-authenticates whatever the session says.
CheckValidSessionAlways(t) ==
    /\ task[t].pc = "got"
    /\ task[t].op = "check_valid_session"
    /\ task' = [task EXCEPT ![t].pc = "auth",
                            ![t].found_invalid =
                                task[t].got = None \/ IsInvalid(task[t].got.value)]
    /\ UNCHANGED <<held, lock, invalid, created, otherThanSession>>

\* check_valid_session: `if self.session().await.is_invalid()`.
CheckValidSession(t) ==
    /\ task[t].pc = "got"
    /\ task[t].op = "check_valid_session"
    /\ IF task[t].got = None \/ IsInvalid(task[t].got.value)
       THEN task' = [task EXCEPT ![t].pc = "auth", ![t].found_invalid = TRUE]
       ELSE task' = [task EXCEPT ![t].pc = "done", ![t].result = Ok("unit")]
    /\ UNCHANGED <<held, lock, invalid, created, otherThanSession>>

\* An authentication that is attempted once more after it failed.
NewSessionAuthRetries(t) ==
    /\ task[t].pc = "auth"
    /\ \/ /\ created < MaxSessions
          /\ created' = created + 1
          /\ task' = [task EXCEPT ![t].pc = "lock_write",
                                  ![t].auths = @ + 1,
                                  ![t].session = Some(Session(created + 1))]
       \/ /\ created' = created
          /\ IF task[t].auths = 0
             THEN task' = [task EXCEPT ![t].auths = @ + 1]
             ELSE task' = [task EXCEPT ![t].pc = "done",
                                       ![t].auths = @ + 1,
                                       ![t].result =
                                           Err("create new client session")]
    /\ UNCHANGED <<held, lock, invalid, otherThanSession>>

\* new_session: `crate::auth::new_session(&self.auth_config, false).await?`
\* resolves, to a new session or to an error that check_valid_session
\* returns with its context.
NewSessionAuth(t) ==
    /\ task[t].pc = "auth"
    /\ \/ /\ created < MaxSessions
          /\ created' = created + 1
          /\ task' = [task EXCEPT ![t].pc = "lock_write",
                                  ![t].auths = @ + 1,
                                  ![t].session = Some(Session(created + 1))]
       \/ /\ created' = created
          /\ task' = [task EXCEPT ![t].pc = "done",
                                  ![t].auths = @ + 1,
                                  ![t].result = Err("create new client session")]
    /\ UNCHANGED <<held, lock, invalid, otherThanSession>>

\* A store into the holder that does not wait for the mutex.
NewSessionNoLock(t) ==
    /\ task[t].pc = "lock_write"
    /\ lock' = lock
    /\ task' = [task EXCEPT ![t].pc = "store"]
    /\ UNCHANGED <<held, invalid, created, otherThanSession>>

\* new_session: `self.session.lock().await` resolves.
NewSessionLock(t) ==
    /\ task[t].pc = "lock_write"
    /\ lock = "free"
    /\ lock' = t
    /\ task' = [task EXCEPT ![t].pc = "store"]
    /\ UNCHANGED <<held, invalid, created, otherThanSession>>

\* `*guard = Some(session)`, first half: the store is not one machine
\* instruction, the holder has the new credentials and the old connection.
NewSessionStore(t) ==
    /\ task[t].pc = "store"
    /\ held' = Some([credentials |-> task[t].session.value.credentials,
                     connection |-> held.value.connection])
    /\ task' = [task EXCEPT ![t].pc = "stored"]
    /\ UNCHANGED <<lock, invalid, created, otherThanSession>>

\* `*guard = Some(session)`, second half; the guard is dropped, new_session
\* and check_valid_session return Ok(()).
NewSessionReturn(t) ==
    /\ task[t].pc = "stored"
    /\ held' = task[t].session
    /\ lock' = "free"
    /\ task' = [task EXCEPT ![t].pc = "done", ![t].writes = @ + 1,
                            ![t].result = Ok("unit")]
    /\ UNCHANGED <<invalid, created, otherThanSession>>

\* The caller goes on and may call again.
SessionCallOver(t) ==
    /\ task[t].pc = "done"
    /\ task' = [task EXCEPT ![t] = [IdleTask EXCEPT !.calls = task[t].calls]]
    /\ UNCHANGED <<held, lock, invalid, created, otherThanSession>>

InitSession ==
    /\ WalkUnused /\ RecentUnused /\ DiscogUnused /\ ReorderUnused
    /\ PatchUnused /\ SearchUnused /\ AddUnused
    /\ SessionUnused /\ FetchUnused /\ RadioUnused /\ ContextUnused

NextSession ==
    \/ SessionBecomesInvalid
    \/ \E t \in Tasks :
        \/ SessionCall(t)
        \/ SessionLock(t)
        \/ SessionRead(t)
        \/ SessionReturn(t)
        \/ CheckValidSession(t)
        \/ NewSessionAuth(t)
        \/ NewSessionLock(t)
        \/ NewSessionStore(t)
        \/ NewSessionReturn(t)
        \/ SessionCallOver(t)

SpecSession == InitSession /\ [][NextSession]_vars

(***************************************************************************)
(* Claims about the held session.                                          *)
(***************************************************************************)
Checks(t) == task[t].op = "check_valid_session"

\* What holds of every call of check_valid_session at every moment.
C14_AtEveryMoment ==
    \A t \in Tasks : Checks(t) =>
        /\ ~ task[t].found_invalid =>
              /\ task[t].auths = 0 /\ task[t].writes = 0
              /\ task[t].session = None
              /\ task[t].pc \in {"lock_read", "read", "got", "done"}
              /\ task[t].pc = "done" => task[t].result = Ok("unit")
        /\ (task[t].pc = "done" /\ task[t].found_invalid) =>
              /\ task[t].auths = 1
              /\ task[t].result.tag = "Ok" =>
                    task[t].writes = 1 /\ task[t].session # None
              /\ task[t].result.tag = "Err" =>
                    task[t].writes = 0 /\ task[t].session = None

\* What holds of every step: only a check that found the session invalid
\* and created a new one changes the held session, and when such a check
\* returns Ok the held session is the one it created.
C14_InEveryStep ==
    /\ held' # held =>
          \E t \in Tasks :
              /\ Checks(t) /\ task[t].found_invalid
              /\ task[t].pc \in {"store", "stored"}
              /\ task[t].session.value.credentials > 1
    /\ \A t \in Tasks :
          (/\ Checks(t) /\ task[t].found_invalid
           /\ task[t].pc # "done" /\ task'[t].pc = "done"
           /\ task'[t].result.tag = "Ok") =>
              /\ held' = task[t].session
              /\ held' # held

\* C14: a check_valid_session that finds the held session valid authenticates
\* nothing, stores nothing and returns Ok, each time it is called; one that
\* finds it invalid and whose authentication succeeds has replaced the held
\* session by the session it created when it returns Ok.
C14_CheckValidSession == []C14_AtEveryMoment /\ [][C14_InEveryStep]_vars

C14_Witness ==
    /\ task["t1"].pc = "done" /\ Checks("t1")
    /\ task["t1"].found_invalid /\ task["t1"].result.tag = "Ok"
    /\ held = Some(Session(2)) /\ task["t1"].session = held
    /\ task["t2"].pc = "done" /\ Checks("t2")
    /\ task["t2"].calls = 2
    /\ ~ task["t2"].found_invalid /\ task["t2"].got = held

\* C16: the holder is never empty; it holds a session that is not complete
\* only while the storing task holds the mutex; whoever reads or stores
\* holds the mutex; every session a reader obtained is complete, one of the
\* sessions created so far.
C16_SessionNeverTorn ==
    /\ held # None
    /\ ~ Complete(held.value) => lock \in Tasks /\ task[lock].pc = "stored"
    /\ \A t \in Tasks :
        /\ task[t].pc \in {"read", "store", "stored"} => lock = t
        /\ task[t].pc \notin {"idle", "lock_read", "read"} =>
              /\ task[t].got # None
              /\ Complete(task[t].got.value)
              /\ task[t].got.value.credentials \in 1..created

C16_Witness ==
    /\ task["t1"].pc = "stored"
    /\ ~ Complete(held.value)
    /\ task["t2"].pc = "lock_read"
    /\ task["t2"].op = "session"
    /\ task["t2"].calls = 2

(***************************************************************************)
(* The catalog fetches of one operation: the first page or the metadata,   *)
(* fetched by http_get or by a method of the rspotify client, then the     *)
(* follow-up pages, which the walkers fetch by http_get.  artist_albums    *)
(* does so twice, for the singles and then for the albums: `later` holds   *)
(* the number of pages of the walks still to begin.                        *)
(***************************************************************************)
MaxFetches == 2
HttpStatuses == {200, 401, 500}

FetchOps ==
    {"playlist_context", "current_user_playlists", "album_context",
     "current_user_saved_tracks", "current_user_top_tracks", "artist_albums"}

\* How an operation fetches its first page or its metadata.
FirstFetchVia(op) ==
    IF op \in {"playlist_context", "current_user_playlists"}
    THEN "http_get"
    ELSE "rspotify"

\* Response bodies: an object with a list of images, the same object with
\* the defective field, and the error object of a refused request.
GoodBody == <<"{">> \o ImagesEmpty \o <<"}">>
DefectBody == <<"{">> \o ImagesNull \o <<"}">>
ErrorBody == <<"{", "\"", "e", "r", "r", "o", "r", "\"", ":", "{", "}", "}">>
Bodies == {GoodBody, DefectBody, ErrorBody}

\* What the upstream can answer to a request: no answer (a transport
\* error), or a status and a body.
\* The error of a fetch: what failed, and the status if the error has it.
FetchError(what, status) == Err([what |-> what, status |-> status])

Answers ==
    {FetchError("transport", None)}
        \cup {Ok([status |-> c, body |-> b]) : c \in HttpStatuses, b \in Bodies}

EveryFetchAnswered == {Ok([status |-> 200, body |-> GoodBody])}

\* serde_json::from_str::<T>: the type wants a list of images.
FromStr(text) ==
    IF MatchesAt(text, 2, ImagesEmpty) /\ Len(text) = Len(ImagesEmpty) + 2
    THEN Ok([json |-> text])
    ELSE FetchError("serde_json", None)

\* The access token of a session.
TokenOf(s) == [of_session |-> s.credentials]

\* Spotify::access_token: the token of the held session, or an error.
AccessToken ==
    {Ok(TokenOf(held.value)), FetchError("access_token", None)}

FetchReturn(result) ==
    fetch' = [fetch EXCEPT !.pc = "done", !.result = result]

\* A request is sent: `bearer` is its credential, `read` the session the
\* credential was read from, `held` the session held as it is sent.
FetchSent(via, bearer, read) ==
    fetch' = [fetch EXCEPT !.pc = "await",
                           !.requests =
                               Append(@, [via |-> via, stage |-> fetch.stage,
                                          bearer |-> bearer,
                                          read |-> read,
                                          held |-> held.value])]

\* The answer is decoded: the operation goes on to its next page, or is
\* over.
FetchDecoded(answer, text, decoded) ==
    IF decoded.tag = "Err"
    THEN fetch' = [fetch EXCEPT !.pc = "done",
                                !.responses =
                                    Append(@, [status |-> answer.status,
                                               body |-> answer.body,
                                               decoded |-> Some(text),
                                               outcome |-> decoded,
                                               held |-> held.value]),
                                !.result = decoded]
    ELSE LET response == [status |-> answer.status, body |-> answer.body,
                          decoded |-> Some(text), outcome |-> decoded,
                          held |-> held.value]
         IN  IF fetch.left > 1
             THEN fetch' = [fetch EXCEPT !.pc = "fetch", !.stage = "next",
                                         !.left = @ - 1,
                                         !.responses = Append(@, response)]
             ELSE IF fetch.later # <<>>
             THEN fetch' = [fetch EXCEPT !.pc = "fetch", !.stage = "first",
                                         !.left = Head(fetch.later),
                                         !.later = Tail(@),
                                         !.responses = Append(@, response)]
             ELSE fetch' = [fetch EXCEPT !.pc = "done", !.stage = "next",
                                         !.left = 0,
                                         !.responses = Append(@, response),
                                         !.result = Ok("collected")]

FetchRefused(answer, refusal) ==
    fetch' = [fetch EXCEPT !.pc = "done",
                           !.responses =
                               Append(@, [status |-> answer.status,
                                          body |-> answer.body,
                                          decoded |-> None,
                                          outcome |-> refusal,
                                          held |-> held.value]),
                           !.result = refusal]

\* The numbers of pages of the walks of an operation: artist_albums walks
\* the singles and then the albums, the other operations walk once.
WalkPlans(op) ==
    IF op = "artist_albums"
    THEN {<<n, m>> : n \in 1..MaxFetches, m \in 1..MaxFetches}
    ELSE {<<n>> : n \in 1..MaxFetches}

\* An operation is called; its first walk has `left` pages to fetch.
OperationCall ==
    /\ fetch.pc = "idle"
    /\ \E op \in FetchOps : \E plan \in WalkPlans(op) :
        fetch' = [fetch EXCEPT !.pc = "fetch", !.op = op, !.stage = "first",
                               !.left = Head(plan), !.later = Tail(plan)]
    /\ UNCHANGED <<sessionVars, otherThanFetch>>

\* The first page of a walk is fetched as the operation fetches it, every
\* later page of the walk by http_get.
FetchVia ==
    IF fetch.stage = "first" THEN FirstFetchVia(fetch.op) ELSE "http_get"

\* An http_get that keeps the token an earlier call obtained.
HttpGetAccessTokenKept ==
    /\ fetch.pc = "fetch"
    /\ FetchVia = "http_get"
    /\ lock = "free"
    /\ \E access_token \in AccessToken :
        IF fetch.access_token # None
               /\ fetch.access_token.value.outcome.tag = "Ok"
        THEN fetch' = [fetch EXCEPT !.pc = "token"]
        ELSE fetch' = [fetch EXCEPT !.pc = "token",
                                    !.access_token =
                                        Some([outcome |-> access_token,
                                              read |-> held.value])]
    /\ UNCHANGED <<sessionVars, otherThanFetch>>

\* http_get: `self.access_token()` is called and reads the held session;
\* its answer is awaited.
HttpGetAccessToken ==
    /\ fetch.pc = "fetch"
    /\ FetchVia = "http_get"
    /\ lock = "free"
    /\ \E access_token \in AccessToken :
        fetch' = [fetch EXCEPT !.pc = "token",
                               !.access_token =
                                   Some([outcome |-> access_token,
                                         read |-> held.value])]
    /\ UNCHANGED <<sessionVars, otherThanFetch>>

\* http_get: `.await?` of the token resolved: its error is returned, or the
\* GET is sent with the token as its bearer credential, whatever session is
\* held by now.
HttpGetSend ==
    /\ fetch.pc = "token"
    /\ LET access_token == fetch.access_token.value
       IN  IF access_token.outcome.tag = "Err"
           THEN FetchReturn(access_token.outcome)
           ELSE FetchSent("http_get", Some(access_token.outcome.value),
                          Some(access_token.read))
    /\ UNCHANGED <<sessionVars, otherThanFetch>>

\* http_get: `.send().await?` resolved, the body is rewritten and decoded;
\* the status of the response is not looked at.
HttpGetAnswered ==
    /\ fetch.pc = "await"
    /\ fetch.requests[Len(fetch.requests)].via = "http_get"
    /\ \E answer \in fetch.upstream :
        IF answer.tag = "Err"
        THEN FetchReturn(answer)
        ELSE LET text == ProcessSpotifyApiResponse(answer.value.body)
             IN  FetchDecoded(answer.value, text, FromStr(text))
    /\ UNCHANGED <<sessionVars, otherThanFetch>>

\* The first fetch of an operation that calls a method of the rspotify
\* client (self.album, self.current_user_saved_tracks_manual, ...).
RspotifySend ==
    /\ fetch.pc = "fetch"
    /\ FetchVia = "rspotify"
    /\ FetchSent("rspotify", None, None)
    /\ UNCHANGED <<sessionVars, otherThanFetch>>

\* The rspotify client refuses a status that is no success and decodes the
\* body as it received it.
RspotifyAnswered ==
    /\ fetch.pc = "await"
    /\ fetch.requests[Len(fetch.requests)].via = "rspotify"
    /\ \E answer \in fetch.upstream :
        IF answer.tag = "Err"
        THEN FetchReturn(answer)
        ELSE IF answer.value.status # 200
        THEN FetchRefused(answer.value,
                          FetchError("status", Some(answer.value.status)))
        ELSE FetchDecoded(answer.value, answer.value.body,
                          FromStr(answer.value.body))
    /\ UNCHANGED <<sessionVars, otherThanFetch>>

InitFetch ==
    /\ WalkUnused /\ RecentUnused /\ DiscogUnused /\ ReorderUnused
    /\ PatchUnused /\ SearchUnused /\ AddUnused
    /\ SessionUnused /\ RadioUnused /\ ContextUnused
    /\ fetch = [pc |-> "idle", op |-> "", stage |-> "first", left |-> 0,
                later |-> <<>>, access_token |-> None,
                upstream |-> Answers, requests |-> <<>>,
                responses |-> <<>>, result |-> Pending]

NextFetch ==
    \/ OperationCall
    \/ HttpGetAccessToken
    \/ HttpGetSend
    \/ HttpGetAnswered
    \/ RspotifySend
    \/ RspotifyAnswered

SpecFetch == InitFetch /\ [][NextFetch]_vars

\* The fetches of an operation while a task checks and renews the session:
\* every request is answered with a page.
InitToken ==
    /\ WalkUnused /\ RecentUnused /\ DiscogUnused /\ ReorderUnused
    /\ PatchUnused /\ SearchUnused /\ AddUnused
    /\ SessionUnused /\ RadioUnused /\ ContextUnused
    /\ fetch = [pc |-> "idle", op |-> "", stage |-> "first", left |-> 0,
                later |-> <<>>, access_token |-> None,
                upstream |-> EveryFetchAnswered,
                requests |-> <<>>,
                responses |-> <<>>, result |-> Pending]

NextToken ==
    \/ OperationCall
    \/ HttpGetAccessToken
    \/ HttpGetSend
    \/ HttpGetAnswered
    \/ RspotifySend
    \/ RspotifyAnswered
    \/ SessionBecomesInvalid
    \/ SessionCall("t1")
    \/ SessionLock("t1")
    \/ SessionRead("t1")
    \/ SessionReturn("t1")
    \/ CheckValidSession("t1")
    \/ NewSessionAuth("t1")
    \/ NewSessionLock("t1")
    \/ NewSessionStore("t1")
    \/ NewSessionReturn("t1")
    \/ SessionCallOver("t1")

SpecToken == InitToken /\ [][NextToken]_vars

(***************************************************************************)
(* Claims about the catalog fetches.                                       *)
(***************************************************************************)
Success(status) == status \in 200..299

\* C12: an http_get whose response has a status that is no success returns
\* an error that carries the status, whatever the body.
C12_NonSuccessStatusIsError ==
    \A k \in 1..Len(fetch.responses) :
        (/\ fetch.requests[k].via = "http_get"
         /\ ~ Success(fetch.responses[k].status)) =>
            /\ fetch.responses[k].outcome.tag = "Err"
            /\ fetch.responses[k].outcome.error.status =
                  Some(fetch.responses[k].status)

\* C13: every body that an operation decoded, in its first fetch or in a
\* later one, was decoded as the rewrite of the body received.
C13_EveryBodyRewritten ==
    \A k \in 1..Len(fetch.responses) :
        fetch.responses[k].decoded # None =>
            fetch.responses[k].decoded.value =
                ProcessSpotifyApiResponse(fetch.responses[k].body)

\* The part of C13 that is about http_get.
C13_HttpGetBodyRewritten ==
    \A k \in 1..Len(fetch.responses) :
        fetch.requests[k].via = "http_get" =>
            /\ fetch.responses[k].decoded # None
            /\ fetch.responses[k].decoded.value =
                  ProcessSpotifyApiResponse(fetch.responses[k].body)

\* C20 as stated: every request of http_get carries the token of the
\* session that is held when the request is sent, so that no request sent
\* after the session was replaced carries the token of the session before.
C20_BearerOfHeldSession ==
    \A k \in 1..Len(fetch.requests) :
        (fetch.requests[k].via = "http_get"
            /\ Complete(fetch.requests[k].held)) =>
            fetch.requests[k].bearer = Some(TokenOf(fetch.requests[k].held))

\* C20 as amended: every request of http_get carries the token that its own
\* call read, from a session that is the one held when the fetch before it
\* was answered or a later one, so that no call uses the token of a call
\* before it; the request is sent with the session replaced only when the
\* session was replaced while the call awaited its token; and an http_get
\* whose token retrieval failed has sent no request.
C20_TokenReadAnew ==
    /\ \A k \in 1..Len(fetch.requests) :
        fetch.requests[k].via = "http_get" =>
            LET r == fetch.requests[k]
            IN  /\ r.read # None
                /\ Complete(r.read.value)
                /\ r.bearer = Some(TokenOf(r.read.value))
                /\ k > 1 => r.read.value.credentials >=
                                fetch.responses[k - 1].held.credentials
                /\ r.held.credentials >= r.read.value.credentials
    /\ fetch.result = FetchError("access_token", None) =>
          /\ fetch.pc = "done"
          /\ Len(fetch.requests) = Len(fetch.responses)

\* The session is replaced while the first http_get awaits its token: the
\* first request carries the token of the session before, the second the
\* token of the new session.
C20_Witness ==
    /\ fetch.pc = "done"
    /\ fetch.result.tag = "Ok"
    /\ Len(fetch.requests) = 2
    /\ fetch.requests[1].via = "http_get"
    /\ fetch.requests[1].read = Some(Session(1))
    /\ fetch.requests[1].bearer = Some(TokenOf(Session(1)))
    /\ fetch.requests[1].held = Session(2)
    /\ fetch.requests[2].via = "http_get"
    /\ fetch.requests[2].read = Some(Session(2))
    /\ fetch.requests[2].bearer = Some(TokenOf(Session(2)))
    /\ held = Some(Session(2))

(***************************************************************************)
(* artist_context: four fetches, one after the other.                      *)
(***************************************************************************)
MaxTopTracks == 2
MaxRelated == 2
ArtistNames == {"r1", "r2"}

ArtistOrder == <<"artist", "top_tracks", "related_artists", "albums">>

\* What `self.artist(..).await` resolves to.
ArtistOutcomes == {Err([fetch |-> "artist"]), Ok("artist")}

\* What `self.artist_top_tracks(..).await` resolves to.
TopTracksOutcomes ==
    {Err([fetch |-> "top_tracks"])}
        \cup UNION {{Ok(ts) : ts \in FullTracks(n)} : n \in 0..MaxTopTracks}

\* What `self.artist_related_artists(..).await` resolves to.
RelatedArtistsOutcomes ==
    {Err([fetch |-> "related_artists"])}
        \cup UNION {{Ok(as) : as \in [1..n -> ArtistNames]} : n \in 0..MaxRelated}

\* What `self.artist_albums(..).await` resolves to: an error of one of its
\* fetches, or the albums that process_artist_albums returned.
ArtistAlbumsOutcomes ==
    {Err([fetch |-> "albums"]), Ok(<<>>),
     Ok(<<[name |-> "A", release_date |-> 2022, id |-> 1]>>)}

\* `?` on a fetch that failed.
ArtistContextFailed(got) ==
    artistCtx' = [artistCtx EXCEPT !.pc = "done",
                                   !.fetched = Append(@, got),
                                   !.result = got]

\* The next fetch issued whether or not this one failed.
ArtistContextGoesOn(got, next) ==
    artistCtx' = [artistCtx EXCEPT !.pc = next,
                                   !.fetched = Append(@, got),
                                   !.requests = Append(@, next)]

\* The fetch succeeded and the next one is issued.
ArtistContextNext(got, next) ==
    IF got.tag = "Err"
    THEN ArtistContextFailed(got)
    ELSE artistCtx' = [artistCtx EXCEPT !.pc = next,
                                        !.fetched = Append(@, got),
                                        !.requests = Append(@, next)]

ArtistContextCall ==
    /\ artistCtx.pc = "idle"
    /\ artistCtx' = [artistCtx EXCEPT !.pc = "artist",
                                      !.requests = <<"artist">>]
    /\ UNCHANGED otherThanArtistCtx

\* `self.artist(artist_id.as_ref()).await?` resolves.
ArtistAnswered ==
    /\ artistCtx.pc = "artist"
    /\ \E got \in ArtistOutcomes : ArtistContextNext(got, "top_tracks")
    /\ UNCHANGED otherThanArtistCtx

\* `self.artist_top_tracks(..).await?` resolves.
ArtistTopTracksAnswered ==
    /\ artistCtx.pc = "top_tracks"
    /\ \E got \in TopTracksOutcomes : ArtistContextNext(got, "related_artists")
    /\ UNCHANGED otherThanArtistCtx

\* `self.artist_related_artists(..).await?` resolves.
ArtistRelatedArtistsAnswered ==
    /\ artistCtx.pc = "related_artists"
    /\ \E got \in RelatedArtistsOutcomes : ArtistContextNext(got, "albums")
    /\ UNCHANGED otherThanArtistCtx

\* `self.artist_albums(..).await?` resolves and Context::Artist is built.
ArtistAlbumsAnswered ==
    /\ artistCtx.pc = "albums"
    /\ \E got \in ArtistAlbumsOutcomes :
        IF got.tag = "Err"
        THEN ArtistContextFailed(got)
        ELSE LET top_tracks == artistCtx.fetched[2].value
                 related == artistCtx.fetched[3].value
             IN  artistCtx' =
                     [artistCtx EXCEPT
                         !.pc = "done",
                         !.fetched = Append(@, got),
                         !.result =
                             Ok([context |-> "Artist",
                                 artist |-> ArtistFrom(artistCtx.fetched[1].value),
                                 top_tracks |->
                                     FilterMapTracks(top_tracks, Len(top_tracks)),
                                 albums |-> got.value,
                                 related_artists |->
                                     [k \in 1..Len(related) |->
                                         ArtistFrom(related[k])]])]
    /\ UNCHANGED otherThanArtistCtx

InitArtistCtx ==
    /\ WalkUnused /\ RecentUnused /\ DiscogUnused /\ ReorderUnused
    /\ PatchUnused /\ SearchUnused /\ AddUnused
    /\ SessionUnused /\ FetchUnused /\ RadioUnused /\ ContextUnused

NextArtistCtx ==
    \/ ArtistContextCall
    \/ ArtistAnswered
    \/ ArtistTopTracksAnswered
    \/ ArtistRelatedArtistsAnswered
    \/ ArtistAlbumsAnswered

SpecArtistCtx == InitArtistCtx /\ [][NextArtistCtx]_vars

(***************************************************************************)
(* Claims about artist_context.                                            *)
(***************************************************************************)
RECURSIVE SubSeqAt(_, _, _)
\* The elements among the first n of s whose index is in keep, in order.
SubSeqAt(s, n, keep) ==
    IF n = 0
    THEN <<>>
    ELSE IF n \in keep
         THEN Append(SubSeqAt(s, n - 1, keep), s[n])
         ELSE SubSeqAt(s, n - 1, keep)

\* The convertible tracks of s, converted, in the order of s.
ConvertibleTracks(s) ==
    LET kept == SubSeqAt(s, Len(s), {k \in 1..Len(s) : s[k].convertible})
    IN  [k \in 1..Len(kept) |-> [name |-> kept[k].name, id |-> kept[k].id]]

\* C17: the fetches are issued in the order artist, top tracks, related
\* artists, albums, each after the one before succeeded; artist_context
\* returns Context::Artist exactly when all four succeeded, with what the
\* four returned; when one fails it returns the error of that one and the
\* later ones are not issued.
C17_ArtistContextAllOrError ==
    LET got == artistCtx.fetched
        req == artistCtx.requests
    IN  /\ Len(req) <= 4 /\ Len(got) <= Len(req) /\ Len(req) <= Len(got) + 1
        /\ \A k \in 1..Len(req) : req[k] = ArtistOrder[k]
        /\ \A k \in 1..Len(got) :
            got[k].tag = "Err" =>
                /\ artistCtx.pc = "done"
                /\ artistCtx.result = got[k]
                /\ Len(req) = k
        /\ artistCtx.result.tag = "Ok" <=>
              (Len(got) = 4 /\ \A k \in 1..4 : got[k].tag = "Ok")
        /\ artistCtx.result.tag = "Ok" =>
              /\ artistCtx.pc = "done"
              /\ artistCtx.result.value =
                    [context |-> "Artist",
                     artist |-> [artist |-> got[1].value],
                     top_tracks |-> ConvertibleTracks(got[2].value),
                     albums |-> got[4].value,
                     related_artists |->
                         [k \in 1..Len(got[3].value) |->
                             [artist |-> got[3].value[k]]]]

C17_Witness ==
    /\ artistCtx.pc = "done"
    /\ artistCtx.result = Err([fetch |-> "related_artists"])
    /\ artistCtx.requests = <<"artist", "top_tracks", "related_artists">>
    /\ Len(artistCtx.fetched[2].value) = 2

(***************************************************************************)
(* playlist_context: the playlist, then the walk of its track list.        *)
(***************************************************************************)
MaxPlaylistItems == 3

\* What a playlist item can hold: nothing, an episode, or a track that
\* Track::try_from_full_track accepts or not.  The k-th item has id k.
Playables(k) ==
    {None, Some([kind |-> "Episode", episode |-> k])}
        \cup {Some([kind |-> "Track",
                    track |-> [name |-> "X", id |-> k, convertible |-> c]]) :
                 c \in BOOLEAN}

PlaylistItems(n) ==
    {[k \in 1..n |-> [track |-> f[k]]] :
        f \in {g \in [1..n -> UNION {Playables(k) : k \in 1..n}] :
                  \A k \in 1..n : g[k] \in Playables(k)}}

\* What the http_get of the playlist resolves to: an error, or a playlist
\* with the first page of its track list.
FullPlaylistOutcomes ==
    {Err([fetch |-> "playlist"])}
        \cup UNION {{Ok([id |-> "p", tracks |-> items]) :
                        items \in PlaylistItems(n)} : n \in 0..MaxPlaylistItems}

\* What all_paging_items(first_page, ..) resolves to: an error, or the items
\* of the first page followed by those of the later pages.
PlaylistWalkOutcomes(first_page) ==
    {Err([fetch |-> "tracks"])}
        \cup UNION {{Ok(items) : items \in {i \in PlaylistItems(n) :
                                     SubSeq(i, 1, Len(first_page)) = first_page}} :
                       n \in Len(first_page)..MaxPlaylistItems}

\* A match that takes every track for convertible.
PlaylistItemTrackUnchecked(item) ==
    IF item.track # None /\ item.track.value.kind = "Track"
    THEN Some([name |-> item.track.value.track.name,
               id |-> item.track.value.track.id])
    ELSE None

\* `match item.track { Some(PlayableItem::Track(track)) =>
\*  Track::try_from_full_track(track), _ => None }`
PlaylistItemTrack(item) ==
    IF item.track # None /\ item.track.value.kind = "Track"
    THEN TryFromFullTrack(item.track.value.track)
    ELSE None

RECURSIVE FilterMapPlaylistItems(_, _)
\* `.into_iter().filter_map(|item| ..).collect()` over the first n elements.
FilterMapPlaylistItems(s, n) ==
    IF n = 0
    THEN <<>>
    ELSE LET t == PlaylistItemTrack(s[n])
         IN  IF t # None
             THEN Append(FilterMapPlaylistItems(s, n - 1), t.value)
             ELSE FilterMapPlaylistItems(s, n - 1)

\* `self.http_get::<FullPlaylist>(.., &market_query())` is issued.
PlaylistContextCall ==
    /\ playlistCtx.pc = "idle"
    /\ playlistCtx' = [playlistCtx EXCEPT
                          !.pc = "playlist",
                          !.requests = <<[to |-> "playlist",
                                          query |-> "market=from_token"]>>]
    /\ UNCHANGED otherThanPlaylistCtx

\* The playlist is there: all_paging_items is called on its first page.
PlaylistAnswered ==
    /\ playlistCtx.pc = "playlist"
    /\ \E full \in FullPlaylistOutcomes :
        IF full.tag = "Err"
        THEN playlistCtx' = [playlistCtx EXCEPT !.pc = "done",
                                                !.fetched = <<full>>,
                                                !.result = full]
        ELSE playlistCtx' = [playlistCtx EXCEPT
                                !.pc = "tracks",
                                !.fetched = <<full>>,
                                !.requests =
                                    Append(@, [to |-> "tracks",
                                               query |-> "market=from_token"])]
    /\ UNCHANGED otherThanPlaylistCtx

\* The walk is over: Context::Playlist is built from what it collected.
PlaylistTracksAnswered ==
    /\ playlistCtx.pc = "tracks"
    /\ LET full == playlistCtx.fetched[1].value
       IN  \E items \in PlaylistWalkOutcomes(full.tracks) :
            IF items.tag = "Err"
            THEN playlistCtx' = [playlistCtx EXCEPT !.pc = "done",
                                                    !.fetched = Append(@, items),
                                                    !.result = items]
            ELSE playlistCtx' =
                    [playlistCtx EXCEPT
                        !.pc = "done",
                        !.fetched = Append(@, items),
                        !.result =
                            Ok([context |-> "Playlist",
                                playlist |-> PlaylistFrom(full.id),
                                tracks |->
                                    FilterMapPlaylistItems(items.value,
                                                           Len(items.value))])]
    /\ UNCHANGED otherThanPlaylistCtx

InitPlaylistCtx ==
    /\ WalkUnused /\ RecentUnused /\ DiscogUnused /\ ReorderUnused
    /\ PatchUnused /\ SearchUnused /\ AddUnused
    /\ SessionUnused /\ FetchUnused /\ RadioUnused /\ ContextUnused

NextPlaylistCtx ==
    \/ PlaylistContextCall
    \/ PlaylistAnswered
    \/ PlaylistTracksAnswered

SpecPlaylistCtx == InitPlaylistCtx /\ [][NextPlaylistCtx]_vars

(***************************************************************************)
(* Claims about playlist_context.                                          *)
(***************************************************************************)
\* Item k of s holds a track that converts.
IsPlayableTrack(s, k) ==
    /\ s[k].track # None
    /\ s[k].track.value.kind = "Track"
    /\ s[k].track.value.track.convertible

PlayableTracks(s) ==
    LET kept == SubSeqAt(s, Len(s), {k \in 1..Len(s) : IsPlayableTrack(s, k)})
    IN  [k \in 1..Len(kept) |-> [name |-> kept[k].track.value.track.name,
                                 id |-> kept[k].track.value.track.id]]

\* C18: playlist_context requests the playlist, then, once it has it, the
\* walk of its track list; when both succeed it returns Context::Playlist
\* whose tracks are the walked items that hold a convertible track, in walk
\* order, whatever the other items are; when one fails it returns that
\* error.
C18_PlaylistContextTracks ==
    LET got == playlistCtx.fetched
        req == playlistCtx.requests
    IN  /\ Len(req) <= 2 /\ Len(got) <= Len(req) /\ Len(req) <= Len(got) + 1
        /\ \A k \in 1..Len(req) : req[k].to = <<"playlist", "tracks">>[k]
        /\ Len(req) = 2 => got[1].tag = "Ok"
        /\ \A k \in 1..Len(got) :
            got[k].tag = "Err" =>
                playlistCtx.pc = "done" /\ playlistCtx.result = got[k]
        /\ (Len(got) = 2 /\ got[2].tag = "Ok") =>
              /\ playlistCtx.pc = "done"
              /\ playlistCtx.result =
                    Ok([context |-> "Playlist",
                        playlist |-> [playlist |-> got[1].value.id],
                        tracks |-> PlayableTracks(got[2].value)])

C18_Witness ==
    /\ playlistCtx.pc = "done"
    /\ playlistCtx.result.tag = "Ok"
    /\ Len(playlistCtx.fetched[1].value.tracks) = 1
    /\ Len(playlistCtx.fetched[2].value) = 3
    /\ playlistCtx.fetched[2].value[1].track = None
    /\ playlistCtx.fetched[2].value[2].track # None
    /\ playlistCtx.fetched[2].value[2].track.value.kind = "Track"
    /\ ~ playlistCtx.fetched[2].value[2].track.value.track.convertible
    /\ IsPlayableTrack(playlistCtx.fetched[2].value, 3)
    /\ playlistCtx.result.value.tracks = <<[name |-> "X", id |-> 3]>>

(***************************************************************************)
(* current_user_saved_tracks, current_user_top_tracks and album_context:   *)
(* a first fetch, the walk of the pages, the conversion of the items.      *)
(***************************************************************************)
MaxCollected == 2
CollectOps ==
    {"current_user_saved_tracks", "current_user_top_tracks", "album_context"}

\* What the first fetch of an operation resolves to: the first page, and
\* for album_context the album it belongs to.
FirstOutcomes(op) ==
    {Err([fetch |-> "first"]),
     Ok([album |-> IF op = "album_context" THEN "A" ELSE ""])}

\* What all_paging_items resolves to: an error or the items of all pages,
\* which are saved tracks, full tracks or simplified tracks.
CollectedOutcomes(op) ==
    {Err([fetch |-> "walk"])}
        \cup UNION {{Ok(IF op = "current_user_saved_tracks"
                        THEN [k \in 1..n |-> [track |-> ts[k]]]
                        ELSE ts) : ts \in FullTracks(n)} : n \in 0..MaxCollected}

\* From<FullAlbum> for Album
AlbumFrom(a) == [album |-> a]

\* Track::try_from_simplified_track
TryFromSimplifiedTrack(track) ==
    IF track.convertible
    THEN Some([name |-> track.name, id |-> track.id, album |-> None])
    ELSE None

RECURSIVE FilterMapSavedTracks(_, _)
\* `.filter_map(|t| Track::try_from_full_track(t.track))` over the first n
\* elements.
FilterMapSavedTracks(s, n) ==
    IF n = 0
    THEN <<>>
    ELSE LET t == TryFromFullTrack(s[n].track)
         IN  IF t # None
             THEN Append(FilterMapSavedTracks(s, n - 1), t.value)
             ELSE FilterMapSavedTracks(s, n - 1)

RECURSIVE FilterMapAlbumTracks(_, _, _)
\* `.filter_map(|t| Track::try_from_simplified_track(t).map(|mut t| {
\*  t.album = Some(album.clone()); t }))` over the first n elements.
FilterMapAlbumTracks(s, n, album) ==
    IF n = 0
    THEN <<>>
    ELSE LET t == TryFromSimplifiedTrack(s[n])
         IN  IF t # None
             THEN Append(FilterMapAlbumTracks(s, n - 1, album),
                         [t.value EXCEPT !.album = Some(album)])
             ELSE FilterMapAlbumTracks(s, n - 1, album)

\* The first fetch of the operation is issued.
CollectCall ==
    /\ collect.pc = "idle"
    /\ \E op \in CollectOps :
        collect' = [collect EXCEPT !.pc = "first", !.op = op,
                                   !.requests = <<"first">>]
    /\ UNCHANGED otherThanCollect

\* The first fetch resolves: `?`, or all_paging_items is called.
CollectFirstAnswered ==
    /\ collect.pc = "first"
    /\ \E first \in FirstOutcomes(collect.op) :
        IF first.tag = "Err"
        THEN collect' = [collect EXCEPT !.pc = "done", !.fetched = <<first>>,
                                        !.result = first]
        ELSE collect' = [collect EXCEPT !.pc = "walk", !.fetched = <<first>>,
                                        !.requests = Append(@, "walk")]
    /\ UNCHANGED otherThanCollect

CollectWalkFailed(items) ==
    collect' = [collect EXCEPT !.pc = "done", !.fetched = Append(@, items),
                               !.result = items]

CollectReturn(items, value) ==
    collect' = [collect EXCEPT !.pc = "done", !.fetched = Append(@, items),
                               !.result = Ok(value)]

\* current_user_saved_tracks: the walk resolves.
SavedTracksCollected ==
    /\ collect.pc = "walk"
    /\ collect.op = "current_user_saved_tracks"
    /\ \E items \in CollectedOutcomes(collect.op) :
        IF items.tag = "Err"
        THEN CollectWalkFailed(items)
        ELSE CollectReturn(items,
                           FilterMapSavedTracks(items.value, Len(items.value)))
    /\ UNCHANGED otherThanCollect

\* current_user_top_tracks: the walk resolves.
TopTracksCollected ==
    /\ collect.pc = "walk"
    /\ collect.op = "current_user_top_tracks"
    /\ \E items \in CollectedOutcomes(collect.op) :
        IF items.tag = "Err"
        THEN CollectWalkFailed(items)
        ELSE CollectReturn(items,
                           FilterMapTracks(items.value, Len(items.value)))
    /\ UNCHANGED otherThanCollect

\* album_context: the walk resolves and Context::Album is built.
AlbumTracksCollected ==
    /\ collect.pc = "walk"
    /\ collect.op = "album_context"
    /\ \E items \in CollectedOutcomes(collect.op) :
        IF items.tag = "Err"
        THEN CollectWalkFailed(items)
        ELSE LET album == AlbumFrom(collect.fetched[1].value.album)
             IN  CollectReturn(items,
                               [context |-> "Album",
                                album |-> album,
                                tracks |->
                                    FilterMapAlbumTracks(items.value,
                                                         Len(items.value),
                                                         album)])
    /\ UNCHANGED otherThanCollect

\* The operations that convert what they fetched, one of them called.
InitConversions ==
    /\ WalkUnused /\ RecentUnused /\ DiscogUnused /\ ReorderUnused
    /\ PatchUnused /\ SearchUnused /\ AddUnused
    /\ SessionUnused /\ FetchUnused /\ RadioUnused /\ ContextUnused

\* One operation is called on a client, and no other.
OnlyCollect == DiscogUnused /\ SearchUnused /\ RadioUnused
OnlyDiscog == CollectUnused /\ SearchUnused /\ RadioUnused
OnlySearch == CollectUnused /\ DiscogUnused /\ RadioUnused
OnlyRadio == CollectUnused /\ DiscogUnused /\ SearchUnused

NextConversions ==
    \/ OnlyCollect /\ CollectCall
    \/ OnlyCollect /\ CollectFirstAnswered
    \/ OnlyCollect /\ SavedTracksCollected
    \/ OnlyCollect /\ TopTracksCollected
    \/ OnlyCollect /\ AlbumTracksCollected
    \/ OnlyDiscog /\ ArtistAlbumsCall
    \/ OnlyDiscog /\ ProcessArtistAlbumsSort
    \/ OnlyDiscog /\ ProcessArtistAlbumsFold
    \/ OnlyDiscog /\ ProcessArtistAlbumsReturn
    \/ OnlySearch /\ SearchCall
    \/ OnlySearch /\ SearchSpecificTypeReturn
    \/ OnlyRadio /\ RadioTracksCall
    \/ OnlyRadio /\ RadioAutoplayAnswered
    \/ OnlyRadio /\ RadioStationAnswered
    \/ OnlyRadio /\ RadioTracksAnswered

SpecConversions == InitConversions /\ [][NextConversions]_vars

(***************************************************************************)
(* Claims about the conversion of fetched items.                           *)
(***************************************************************************)
\* The convertible albums of s, converted, in the order of s.
ConvertibleAlbums(s) ==
    LET kept == SubSeqAt(s, Len(s), {k \in 1..Len(s) : s[k].convertible})
    IN  [k \in 1..Len(kept) |->
            [name |-> kept[k].name, release_date |-> kept[k].release_date,
             id |-> kept[k].id]]

\* The tracks of the saved tracks s.
TracksOfSaved(s) == [k \in 1..Len(s) |-> s[k].track]

\* The ids of the station tracks s that TrackId::from_id accepts, in order.
ValidGids(s) ==
    LET kept == SubSeqAt(s, Len(s),
                         {k \in 1..Len(s) : s[k].original_gid # "bad"})
    IN  [k \in 1..Len(kept) |-> kept[k].original_gid]

\* The walk of saved tracks, top tracks or album tracks succeeded: the
\* operation returns Ok with the convertible items, converted, in order.
CollectReturnsConverted ==
    (Len(collect.fetched) = 2 /\ collect.fetched[2].tag = "Ok") =>
        LET items == collect.fetched[2].value
        IN  /\ collect.pc = "done"
            /\ collect.op = "current_user_saved_tracks" =>
                  collect.result = Ok(ConvertibleTracks(TracksOfSaved(items)))
            /\ collect.op = "current_user_top_tracks" =>
                  collect.result = Ok(ConvertibleTracks(items))
            /\ collect.op = "album_context" =>
                  LET album == [album |-> collect.fetched[1].value.album]
                      kept == ConvertibleTracks(items)
                  IN  collect.result =
                          Ok([context |-> "Album", album |-> album,
                              tracks |->
                                  [k \in 1..Len(kept) |->
                                      [name |-> kept[k].name, id |-> kept[k].id,
                                       album |-> Some(album)]]])

\* The three requests of radio_tracks succeeded: the lookup was for the
\* valid ids, in order, and the result is the convertible tracks, in order.
RadioReturnsConverted ==
    (Len(radio.responses) = 3 /\ radio.responses[3].tag = "Ok") =>
        /\ radio.pc = "done"
        /\ radio.requests[3].arg =
              ValidGids(radio.responses[2].value.payload[1].tracks)
        /\ radio.result = Ok(ConvertibleTracks(radio.responses[3].value))

\* The four sub-searches returned pages of the kinds asked for.
SearchReturnsConverted ==
    (/\ search.pc = "done" /\ AllBranchesOk
     /\ \A t \in SearchTypes : ~ Mismatched(t)) =>
        /\ search.result.tag = "Ok"
        /\ search.result.value.tracks =
              ConvertibleTracks(search.branch["Track"].value.items)
        /\ search.result.value.albums =
              ConvertibleAlbums(search.branch["Album"].value.items)

ArtistAlbumsFetched == discog.pc = "done" /\ discog.result # Err("walk")

\* The claim as it was made: what it says of artist_albums as of the
\* other operations.
C19_ResultIsConvertedSubsequence ==
    /\ CollectReturnsConverted
    /\ RadioReturnsConverted
    /\ SearchReturnsConverted
    /\ ArtistAlbumsFetched =>
          discog.result =
              Ok(ConvertibleAlbums(discog.fetched_albums
                                       \o discog.fetched_singles))

\* C19: whichever conversions fail, an operation whose fetches succeeded
\* returns Ok; saved tracks, top tracks, radio_tracks, album_context and
\* search return the convertible items, converted, in the order fetched;
\* artist_albums hands the convertible albums, in the order fetched, to
\* process_artist_albums and returns what that makes of them: albums of
\* this list, one for each name in it.
C19_ConversionsNeverFail ==
    /\ CollectReturnsConverted
    /\ RadioReturnsConverted
    /\ SearchReturnsConverted
    /\ ArtistAlbumsFetched =>
          /\ discog.result.tag = "Ok"
          /\ discog.arg = ConvertibleAlbums(discog.fetched_albums
                                                \o discog.fetched_singles)
          /\ Range(discog.result.value) \subseteq Range(discog.arg)
          /\ NamesOf(discog.result.value) = NamesOf(discog.arg)
          /\ Len(discog.result.value) = Cardinality(NamesOf(discog.arg))

C19_Witness ==
    /\ ArtistAlbumsFetched
    /\ Len(discog.fetched_albums) = 2
    /\ Len(discog.fetched_singles) = 1
    /\ ~ discog.fetched_albums[1].convertible
    /\ discog.fetched_albums[2].release_date = 2020
    /\ discog.fetched_singles[1].release_date = 2022
    /\ discog.fetched_singles[1].name # discog.fetched_albums[2].name
    /\ Len(discog.result.value) = 2
    /\ discog.result.value[1] = discog.arg[2]

(***************************************************************************)
(* The operations that run an offset walk: each fetches its first page     *)
(* with its own query parameters and hands `all_paging_items` the payload  *)
(* of the follow-up requests.                                              *)
(***************************************************************************)
PagedOps ==
    {"current_user_saved_tracks", "current_user_top_tracks",
     "current_user_playlists", "current_user_saved_albums",
     "artist_albums", "playlist_context", "album_context"}

\* `Query::from([("market", "from_token")])`
MarketQuery == "market=from_token"

\* The query parameters of the request that fetches the first page:
\* `Some(Market::FromToken)` and `Some(50)` of the `_manual` calls, the
\* query handed to `http_get`, the market of `self.album(..)`.
FirstPageQuery(op) ==
    CASE op = "current_user_saved_tracks" -> {MarketQuery, "limit=50"}
      [] op = "current_user_top_tracks" -> {"limit=50"}
      [] op = "current_user_playlists" -> {"limit=50"}
      [] op = "current_user_saved_albums" -> {MarketQuery, "limit=50"}
      [] op = "artist_albums" -> {MarketQuery, "limit=50"}
      [] op = "playlist_context" -> {MarketQuery}
      [] op = "album_context" -> {MarketQuery}

\* The second argument of `self.all_paging_items(first_page, ..)`:
\* `&market_query()` or `&Query::new()`.
WalkPayload(op) ==
    CASE op = "current_user_saved_tracks" -> MarketQuery
      [] op = "current_user_top_tracks" -> ""
      [] op = "current_user_playlists" -> ""
      [] op = "current_user_saved_albums" -> ""
      [] op = "artist_albums" -> MarketQuery
      [] op = "playlist_context" -> MarketQuery
      [] op = "album_context" -> ""

\* An operation has its first page and calls `all_paging_items`.
PagedOperationCall ==
    /\ walk[PAGING].pc = "idle"
    /\ NoWalkRunning
    /\ \E op \in PagedOps :
           walk' = [walk EXCEPT ![PAGING] =
                       [@ EXCEPT !.pc = "loop", !.payload = WalkPayload(op),
                                 !.items = PageOf(1).items,
                                 !.maybe_next = PageOf(1).next,
                                 !.caller = op,
                                 !.first_query = FirstPageQuery(op)]]
    /\ UNCHANGED <<chain, failAt, urlStyle, otherThanWalk>>

NextPaged ==
    \/ PagedOperationCall
    \/ AllPagingItemsFetch
    \/ AllPagingItemsReturn
    \/ AllCursorBasedPagingItemsCall
    \/ AllCursorBasedPagingItemsFetch
    \/ AllCursorBasedPagingItemsReturn
    \/ FollowedArtistsCall
    \/ FollowedArtistsFirstAnswered
    \/ FollowedArtistsFetch
    \/ FollowedArtistsReturn

SpecPaged == InitWalk /\ [][NextPaged]_vars

\* The market parameter of a follow-up request is that of the first page.
CarriesMarketOfFirstPage(w) ==
    \A k \in 1..Len(walk[w].requests) :
        (walk[w].requests[k].query = MarketQuery)
            <=> (MarketQuery \in walk[w].first_query)

\* C21: in every offset walk run by an operation each follow-up request
\* carries `market=from_token` exactly when the request for the first page
\* asked for the token's market, and the follow-up requests of the cursor
\* walks carry no query parameters.
C21_FollowUpsCarryFirstQuery ==
    /\ walk[PAGING].caller \in PagedOps => CarriesMarketOfFirstPage(PAGING)
    /\ \A w \in {CURSOR, FOLLOWED} :
           \A k \in 1..Len(walk[w].requests) : walk[w].requests[k].query = ""

\* What holds of the code: the follow-up requests carry the payload the
\* operation handed to the walk, whatever the first page was asked with.
C21_FollowUpsCarryPayload ==
    /\ \A k \in 1..Len(walk[PAGING].requests) :
           walk[PAGING].caller \in PagedOps =>
               walk[PAGING].requests[k].query = WalkPayload(walk[PAGING].caller)
    /\ \A w \in {CURSOR, FOLLOWED} :
           \A k \in 1..Len(walk[w].requests) : walk[w].requests[k].query = ""

(***************************************************************************)
(* Termination of the page walks.  The walks run as in SpecWalk; every     *)
(* follow-up fetch that is awaited is answered (with a page or with an     *)
(* error) and the task that runs the walk is polled until it returns.      *)
(***************************************************************************)
\* Termination does not depend on what a page holds: the chains walked
\* here have pages of no item or of one.
InitWalkFair ==
    /\ InitWalk
    /\ \A k \in 1..Len(chain) : Len(chain[k]) <= 1

SpecWalkFair ==
    /\ InitWalkFair /\ [][NextWalk]_vars
    /\ WF_vars(AllPagingItemsFetch) /\ WF_vars(AllPagingItemsReturn)
    /\ WF_vars(AllCursorBasedPagingItemsFetch)
    /\ WF_vars(AllCursorBasedPagingItemsReturn)
    /\ WF_vars(FollowedArtistsFirstAnswered)
    /\ WF_vars(FollowedArtistsFetch) /\ WF_vars(FollowedArtistsReturn)

\* A walk that has returned with every fetch answered by a page has made
\* one follow-up fetch for each page after the first.
FetchedEveryPageOnce(w) ==
    (walk[w].pc = "done" /\ failAt = 0) =>
        /\ walk[w].result.tag = "Ok"
        /\ Len(walk[w].requests) = Len(chain) - 1

\* A walk that has read a page without `next` makes no further fetch.
NoFetchAfterLastPage(w) ==
    (walk[w].pc # "idle" /\ walk[w].maybe_next = None) =>
        walk'[w].requests = walk[w].requests

\* C22: a walk that was started returns; when every fetch was answered by
\* a page it returns after exactly n-1 follow-up fetches for a chain of n
\* pages; and no walk fetches again once it has read a page without `next`.
C22_WalkTerminates ==
    /\ \A w \in Walkers :
           (walk[w].pc \in {"first", "loop"}) ~> (walk[w].pc = "done")
    /\ [](\A w \in Walkers : FetchedEveryPageOnce(w))
    /\ [][\A w \in Walkers : NoFetchAfterLastPage(w)]_vars

\* A walk over the longest chain has returned all its pages.
C22_Witness ==
    /\ failAt = 0
    /\ Len(chain) = MaxPages
    /\ \A w \in Walkers :
           /\ walk[w].pc = "done"
           /\ Len(walk[w].requests) = MaxPages - 1
           /\ walk[w].maybe_next = None

(***************************************************************************)
(* add_track_to_playlist called again by its caller once the first call    *)
(* has returned, for the same playlist and the same track.                 *)
(***************************************************************************)
AddTrackToPlaylistRetry ==
    /\ adder["c1"].pc = "done"
    /\ adder["c2"].pc = "idle"
    /\ adder' = [adder EXCEPT !["c2"] =
                    [@ EXCEPT !.pc = "remove",
                              !.op = "add_track_to_playlist",
                              !.track_id = adder["c1"].track_id,
                              !.before = playlist]]
    /\ UNCHANGED <<playlist, otherThanAdd>>

NextRetry ==
    \/ AddTrackToPlaylistCall("c1")
    \/ AddTrackToPlaylistRemove("c1")
    \/ AddTrackToPlaylistAdd("c1")
    \/ AddTrackToPlaylistRetry
    \/ AddTrackToPlaylistRemove("c2")
    \/ AddTrackToPlaylistAdd("c2")

SpecRetry == InitAdd /\ [][NextRetry]_vars

\* C23: with no other writer, when the call and the call made again after
\* it both succeed, the second leaves the playlist as the first left it:
\* the other items as before the first call, in their order, and the track
\* once, at the end.
C23_RetryIsIdempotent ==
    LET first == adder["c1"]
        again == adder["c2"]
    IN  (/\ first.pc = "done" /\ first.result.tag = "Ok"
         /\ again.pc = "done" /\ again.result.tag = "Ok") =>
            /\ playlist = again.before
            /\ playlist = Append(Without(first.before, first.track_id),
                                 first.track_id)
            /\ Count(playlist, first.track_id) = 1

C23_Witness ==
    /\ adder["c1"].pc = "done" /\ adder["c1"].result.tag = "Ok"
    /\ adder["c2"].pc = "done" /\ adder["c2"].result.tag = "Ok"
    /\ adder["c1"].track_id = "t1"
    /\ adder["c1"].before = <<"t1", "t2", "t1">>
    /\ adder["c2"].before = <<"t2", "t1">>
    /\ playlist = <<"t2", "t1">>

(***************************************************************************)
(* Claims about a check_valid_session whose re-authentication fails.       *)
(***************************************************************************)
FailedCheck(t) ==
    Checks(t) /\ task[t].pc = "done" /\ task[t].result.tag = "Err"

\* A check that returned an error had found the session invalid, has
\* authenticated once, has no session to store and has stored nothing;
\* the holder is not empty.
C24_AtEveryMoment ==
    \A t \in Tasks : FailedCheck(t) =>
        /\ task[t].found_invalid
        /\ task[t].result = Err("create new client session")
        /\ task[t].auths = 1
        /\ task[t].writes = 0
        /\ task[t].session = None
        /\ held # None

\* The step in which the authentication fails is the return of the check,
\* and it leaves the holder and its mutex as they were; no step of a check
\* that has no new session changes the holder, and a check that has one
\* keeps it until it returns, so that a check that ends in an error has
\* changed the holder in none of its steps.
C24_InEveryStep ==
    \A t \in Tasks : (Checks(t) /\ task'[t] # task[t]) =>
        /\ (task[t].pc = "auth" /\ task'[t].session = None) =>
              /\ task'[t].pc = "done"
              /\ task'[t].result.tag = "Err"
              /\ lock' = lock
              /\ created' = created
        /\ (task'[t].session = None /\ task'[t].pc # "idle") => held' = held
        /\ (task[t].session # None /\ task'[t].pc # "idle") =>
              task'[t].session = task[t].session

\* C24: a check_valid_session that finds the session invalid and fails to
\* create a new one returns the error after one authentication attempt and
\* leaves the held session as it was: not replaced, not cleared.
C24_FailedRefreshKeepsSession == []C24_AtEveryMoment /\ [][C24_InEveryStep]_vars

C24_Witness ==
    /\ FailedCheck("t1")
    /\ task["t1"].found_invalid
    /\ task["t1"].calls = 1
    /\ held = Some(Session(1))
    /\ held = task["t1"].got
    /\ IsInvalid(held.value)
    /\ created = 1
    /\ task["t2"].calls = 0

(***************************************************************************)
(* Claims about the names in the recently played tracks.                   *)
(***************************************************************************)
DistinctNames(tracks) ==
    \A i, j \in 1..Len(tracks) : tracks[i].name = tracks[j].name => i = j

\* C25: the list that current_user_recently_played_tracks builds, and the
\* list it returns, never holds two tracks of one name, whatever the play
\* history and whichever of its tracks fail to convert.
C25_NoTwoTracksOfOneName ==
    /\ DistinctNames(recent.tracks)
    /\ (recent.pc = "done" /\ recent.result.tag = "Ok") =>
          DistinctNames(recent.result.value)

\* A history in which a name is played twice, both plays convertible,
\* after a play that does not convert.
C25_Witness ==
    /\ recent.pc = "done"
    /\ Len(recent.play_histories) = 3
    /\ recent.play_histories[1].track = [name |-> "Y", id |-> 1, convertible |-> FALSE]
    /\ recent.play_histories[2].track = [name |-> "X", id |-> 2, convertible |-> TRUE]
    /\ recent.play_histories[3].track = [name |-> "X", id |-> 3, convertible |-> TRUE]
    /\ recent.result = Ok(<<[name |-> "X", id |-> 2]>>)

(***************************************************************************)
(* Two callers at once, of add_track_to_playlist or of                     *)
(* delete_track_from_playlist: the two requests of an addition are         *)
(* separate awaits, and nothing orders the requests of one call against    *)
(* those of the other.                                                     *)
(***************************************************************************)
NextConcurrentAdd ==
    \E c \in Callers :
        \/ AddTrackToPlaylistCall(c)
        \/ AddTrackToPlaylistRemove(c)
        \/ AddTrackToPlaylistAdd(c)
        \/ DeleteTrackFromPlaylistCall(c)
        \/ DeleteTrackFromPlaylistRemove(c)

SpecConcurrentAdd == InitAdd /\ [][NextConcurrentAdd]_vars

BothAdded ==
    /\ \A c \in Callers :
           /\ adder[c].op = "add_track_to_playlist"
           /\ adder[c].pc = "done" /\ adder[c].result.tag = "Ok"
    /\ adder["c1"].track_id = adder["c2"].track_id

\* C26: after two concurrent calls for the same track have both returned
\* Ok, the track occurs at most once in the playlist.
C26_AtMostOnceAfterConcurrentAdds ==
    BothAdded => Count(playlist, adder["c1"].track_id) <= 1

\* What holds of the code: each successful call appends the track once and
\* nothing else adds it, so that it occurs once or twice.
C26_OnceOrTwiceAfterConcurrentAdds ==
    BothAdded =>
        /\ Count(playlist, adder["c1"].track_id) \in {1, 2}
        /\ playlist[Len(playlist)] = adder["c1"].track_id

(***************************************************************************)
(* Claims about concurrent calls of check_valid_session.                   *)
(***************************************************************************)
\* The mutex is held while the session is read and while it is stored, and
\* by nobody in between: two checks can both read the invalid session
\* before either has stored a new one.

\* C27: the sessions created after the first are at most as many as the
\* sessions that became invalid, and no two concurrent checks hold a new
\* session each for the same invalid session they read.
C27_OneNewSessionPerInvalidation ==
    /\ created - 1 <= Cardinality(invalid)
    /\ \A t, u \in Tasks :
          (/\ t # u /\ Checks(t) /\ Checks(u)
           /\ task[t].found_invalid /\ task[u].found_invalid
           /\ task[t].got = task[u].got) =>
              ~ (task[t].session # None /\ task[u].session # None)

(***************************************************************************)
(* Claims about the order of the artist's albums.                          *)
(***************************************************************************)
NewestFirst(s) ==
    \A k \in 1..(Len(s) - 1) : s[k].release_date >= s[k + 1].release_date

\* The album kept of a name is the last one, in the order of the input (the
\* ids count the fetched albums, singles after albums), among the albums of
\* that name with its release date.
LastOfEqualDates(s, input) ==
    \A k \in 1..Len(s) : \A a \in Range(input) :
        (a.name = s[k].name /\ a.release_date = s[k].release_date) =>
            a.id <= s[k].id

\* C28: the list that process_artist_albums builds and returns is ordered by
\* release date from the newest to the oldest, and of the albums of one name
\* with the same release date it keeps the one that comes last in its input.
C28_NewestFirstLastOfTies ==
    /\ discog.pc = "rfold" =>
          NewestFirst(discog.acc) /\ LastOfEqualDates(discog.acc, discog.arg)
    /\ (discog.pc = "done" /\ discog.result.tag = "Ok") =>
          /\ NewestFirst(discog.result.value)
          /\ LastOfEqualDates(discog.result.value, discog.arg)

\* An album and a single of one name and one release date, and an older
\* album of another name fetched between them.
C28_Witness ==
    /\ discog.pc = "done"
    /\ discog.fetched_albums =
           <<[name |-> "A", release_date |-> 2022, id |-> 1, convertible |-> TRUE],
             [name |-> "B", release_date |-> 2020, id |-> 2, convertible |-> TRUE]>>
    /\ discog.fetched_singles =
           <<[name |-> "A", release_date |-> 2022, id |-> 3, convertible |-> TRUE]>>
    /\ discog.result = Ok(<<[name |-> "A", release_date |-> 2022, id |-> 3],
                            [name |-> "B", release_date |-> 2020, id |-> 2]>>)

====
